---- MODULE Spec2Model ----
(***************************************************************************)
(* Model of the real-time speech orchestrator of Cognitive-echo:           *)
(* SocketService (connection registry, per-user processing flag, the turn  *)
(* pipeline of processSpeechInput) and the parts of OpenAIService the      *)
(* pipeline calls (conversation context and its cleanup, analysis          *)
(* formatting, transcription confidence), the feedback handling of the    *)
(* socket and of POST /feedback, end_session and the session routes        *)
(* (start, update, end) with the daily progress record.                    *)
(*                                                                         *)
(* One action is one run of JavaScript between two awaits: socket event    *)
(* handlers start on an inbound event, and a turn resumes when the promise *)
(* it awaits settles.  A rejection that passes through the finally block   *)
(* of processSpeechInput into the catch of the process_speech handler      *)
(* crosses only microtask boundaries, so it is one action.                 *)
(*                                                                         *)
(* Inbound events carry the payload objects the event interface declares   *)
(* (a process_speech without a payload throws at the destructuring in      *)
(* processSpeechInput, before the flag is looked at).  The model keeps of  *)
(* a payload only what the handlers branch on.                             *)
(*                                                                         *)
(* Spec is the orchestrator with connections closing; OpenSpec the same    *)
(* with open connections and fairness; StoreSpec the context store under   *)
(* a long run of analyses and HistorySpec the same with turns reading it;  *)
(* TimedSpec turns while time passes and the cleanup timer fires; HintSpec *)
(* turns over the analyses that differ in their audio hint; FeedbackSpec   *)
(* and EndingSpec sessions under feedback and under end_session; RestSpec  *)
(* the session routes of the REST interface; SessionSpec sessions ended    *)
(* over the socket and over the route while the clock runs, GardenSpec the *)
(* same with the update route; TranscriptionSpec the confidence computed   *)
(* for a Whisper reply; FormatSpec formatAnalysisResponse over parsed      *)
(* analyses with missing fields; RaceSpec a start_session handled while    *)
(* an end_session is in progress; RateSpec the per-user rate limiter of    *)
(* the auth middleware; TempFileSpec the temporary files of overlapping    *)
(* transcribeAudio calls; ForgotSpec POST /forgot-password run in two      *)
(* worlds that differ in the existence of the account.                     *)
(***************************************************************************)
EXTENDS Integers, Sequences, FiniteSets, TLC

\* ---------------------------------------------------------------- bounds
MaxTurns == 2
MaxEvents == 4
MaxSessions == 1
MaxRows == 2
MaxFeedbacks == 2
MaxRequests == 3
MaxAppends == 12
MaxStored == 9
MaxTime == 6
MaxWords == 2
MaxCalls == 2

\* Two sockets: enough for a second connection of the same user and for a
\* connection of another user.
Conns == {"c1", "c2"}
Turns == 1..MaxTurns
SessionIds == 1..MaxSessions
\* The rows the session table can hold: one more than the ids requests name,
\* for the session a connection starts while its end_session is in progress.
Rows == 1..MaxRows
Feedbacks == 1..MaxFeedbacks
Requests == 1..MaxRequests
Calls == 1..MaxCalls
Users == {"u1", "u2"}

NoUser == "none"
NoConn == "none"
NoSession == 0
NoTurn == 0
NoTime == -1

\* conversationContexts.get(userId) || []: a user without a key reads as the
\* empty list, and no key ever holds an empty list (an append stores at least
\* one entry, the cleanup deletes the key of an emptied list).
NoContext == <<>>

\* Time is counted in units of five minutes (300000 ms), the period of the
\* cleanup timer; maxAge, 30 * 60 * 1000 ms, is six of them.
CleanupInterval == 1
\* The milliseconds of one unit of time.
TimeUnitMs == 300000
MaxAge == 6

\* ------------------------------------------------- JavaScript values
\* JavaScript values are written as strings; Falsy is the set of values that
\* `||` and `&&` treat as false.
Undefined == "undefined"
Falsy == {"undefined", "null", "false", "", "0"}

JsOr(v, d) == IF v \in Falsy THEN d ELSE v

Truthy(v) == v \notin Falsy

\* What JSON.parse(response.choices[0].message.content) can yield: an object
\* (every field present or undefined) or null (content null parses to null).
AnalysisObject(wp, conf, vs, vc, as, at, lvl) ==
    [isNull |-> FALSE, wordPredictions |-> wp, confidence |-> conf,
     intendedMeaning |-> Undefined, assistanceLevel |-> lvl,
     visualSuggested |-> vs, visualConcept |-> vc,
     audioSuggested |-> as, audioText |-> at,
     emotionalContext |-> Undefined, recommendations |-> Undefined]

JsonNull ==
    [isNull |-> TRUE, wordPredictions |-> Undefined, confidence |-> Undefined,
     intendedMeaning |-> Undefined, assistanceLevel |-> Undefined,
     visualSuggested |-> Undefined, visualConcept |-> Undefined,
     audioSuggested |-> Undefined, audioText |-> Undefined,
     emotionalContext |-> Undefined, recommendations |-> Undefined]

ParsedObjects ==
    { AnalysisObject("[park]", "0.85", "true", "park", Undefined, Undefined, "medium"),
      AnalysisObject("[walk]", "0.5", "true", "park", "true", "say park", "high"),
      AnalysisObject(Undefined, Undefined, "false", Undefined, "true", "say walk", "low") }

ParsedAnalyses == ParsedObjects \cup {JsonNull}

\* Completions without a visual cue that differ in their audio hint and
\* assistance level.
HintAnalyses ==
    { AnalysisObject(Undefined, Undefined, "false", Undefined, "true", "say walk", "high"),
      AnalysisObject(Undefined, Undefined, "false", Undefined, "true", "say walk", "medium"),
      AnalysisObject(Undefined, Undefined, "false", Undefined, "true", "say walk", Undefined),
      AnalysisObject(Undefined, Undefined, "false", Undefined, "true", "", "high"),
      AnalysisObject(Undefined, Undefined, "false", Undefined, "false", "say walk", "high"),
      AnalysisObject(Undefined, Undefined, "false", Undefined, Undefined, Undefined, "low") }

\* A completion that suggests no visual aid.
PlainParsed == CHOOSE parsed \in ParsedObjects : parsed.visualSuggested = "false"

NoAnalysis ==
    [predictions |-> Undefined, confidence |-> Undefined, intendedMeaning |-> Undefined,
     assistanceLevel |-> Undefined, visualAidSuggested |-> Undefined,
     visualConcept |-> Undefined, audioHintSuggested |-> Undefined,
     audioHintText |-> Undefined, emotionalContext |-> Undefined,
     recommendations |-> Undefined]

\* `??` in place of `||`: only undefined and null take the default.
formatAnalysisResponseNullish(analysis) ==
    LET or(v, d) == IF v \in {"undefined", "null"} THEN d ELSE v
    IN  [predictions |-> or(analysis.wordPredictions, "[]"),
         confidence |-> or(analysis.confidence, "0"),
         intendedMeaning |-> or(analysis.intendedMeaning, ""),
         assistanceLevel |-> or(analysis.assistanceLevel, "low"),
         visualAidSuggested |-> or(analysis.visualSuggested, "false"),
         visualConcept |-> or(analysis.visualConcept, "null"),
         audioHintSuggested |-> or(analysis.audioSuggested, "false"),
         audioHintText |-> or(analysis.audioText, "null"),
         emotionalContext |-> or(analysis.emotionalContext, "neutral"),
         recommendations |-> or(analysis.recommendations, "")]

formatAnalysisResponse(analysis) ==
    [predictions |-> JsOr(analysis.wordPredictions, "[]"),
     confidence |-> JsOr(analysis.confidence, "0"),
     intendedMeaning |-> JsOr(analysis.intendedMeaning, ""),
     assistanceLevel |-> JsOr(analysis.assistanceLevel, "low"),
     visualAidSuggested |-> JsOr(analysis.visualSuggested, "false"),
     visualConcept |-> JsOr(analysis.visualConcept, "null"),
     audioHintSuggested |-> JsOr(analysis.audioSuggested, "false"),
     audioHintText |-> JsOr(analysis.audioText, "null"),
     emotionalContext |-> JsOr(analysis.emotionalContext, "neutral"),
     recommendations |-> JsOr(analysis.recommendations, "")]

\* The parsed objects formatAnalysisResponse is checked on: every field
\* missing (undefined), present with a truthy value, or present with a falsy
\* one (null, 0, false, '').
ParsedFields ==
    [isNull : {FALSE},
     wordPredictions : {Undefined, "[walk]", "null"},
     confidence : {Undefined, "0.5", "0"},
     intendedMeaning : {Undefined, "go out"},
     assistanceLevel : {Undefined, "high"},
     visualSuggested : {Undefined, "true", "false"},
     visualConcept : {Undefined, "park", ""},
     audioSuggested : {Undefined, "true"},
     audioText : {Undefined, "say walk", ""},
     emotionalContext : {Undefined, "calm"},
     recommendations : {Undefined, "rest"}]

\* Before formatAnalysisResponse was called.
NoFormatted == [parsed |-> JsonNull, result |-> NoAnalysis]

\* JavaScript numbers: a rational num / den with den > 0, Infinity, or NaN.
Rat(n, d) == [nan |-> FALSE, inf |-> FALSE, num |-> n, den |-> d]

NaN == [nan |-> TRUE, inf |-> FALSE, num |-> 0, den |-> 1]

Infinity == [nan |-> FALSE, inf |-> TRUE, num |-> 1, den |-> 1]

\* a / b for a >= 0: x / 0 is Infinity, 0 / 0 is NaN
JsDiv(a, b) ==
    IF b = 0 THEN (IF a = 0 THEN NaN ELSE Infinity)
    ELSE IF b < 0 THEN Rat(-a, -b) ELSE Rat(a, b)

\* x + y for finite x and y, or NaN
JsAdd(x, y) ==
    IF x.nan \/ y.nan THEN NaN
    ELSE Rat(x.num * y.den + y.num * x.den, x.den * y.den)

\* Math.min(1, x): NaN if x is NaN
JsMinOne(x) ==
    IF x.nan THEN NaN
    ELSE IF x.inf THEN Rat(1, 1)
    ELSE IF x.num > x.den THEN Rat(1, 1) ELSE x

\* Math.max(0, x): NaN if x is NaN
JsMaxZero(x) ==
    IF x.nan THEN NaN
    ELSE IF x.num < 0 THEN Rat(0, 1) ELSE x

\* ----------------------------------------------------------------- state
VARIABLES
    socket,                \* per connection: status, authenticated, userId, sessionId
    activeConnections,     \* userId -> connection (NoConn: no entry)
    processingQueue,       \* the users whose processing flag is set
    conversationContexts,  \* userId -> sequence of context entries
    sessions,              \* the session table: id -> row (exists FALSE: no row)
    turns,                 \* every accepted process_speech and where it stands
    emitted,               \* per connection: how often each event outside a turn was emitted
    received,              \* the number of inbound events handled so far
    pendingStart,          \* per connection: the start_session whose row is being created
    now,                   \* Date.now(), in units of TimeUnit milliseconds
    lastSweep,             \* when the cleanup timer was armed or last fired
    feedbacks,             \* every feedback event that reached the session lookup
    ending,                \* per connection: the end_session in flight
    millis,                \* the milliseconds of Date.now() within its time unit
    transcription,         \* the last Whisper reply and the confidence computed for it
    requests,              \* every REST request on a session and where it stands
    progress,              \* the progress record of today: userId -> record
    artworks,              \* per session: the calls of generateMemoryGardenArt
    formatted,             \* the last parsed analysis and what formatAnalysisResponse made of it
    limiter,               \* userRateLimit: its Map and what became of each request
    files,                 \* the upload directory: path -> content (NoFile: no such file)
    transcribes,           \* every transcribeAudio call and where it stands
    forgot                 \* a POST /forgot-password, run with and without the account

vars == <<socket, activeConnections, processingQueue, conversationContexts,
          sessions, turns, emitted, received, pendingStart,
          now, lastSweep, feedbacks, ending, millis, transcription, requests,
          progress, artworks, formatted, limiter, files, transcribes, forgot>>

\* What the handlers of a connection and the turn pipeline never write.
timers == <<now, lastSweep, millis>>

\* What the orchestrator's handlers never look at: the results of the pure
\* functions, the rate limiter, the temporary files of transcribeAudio and
\* the password-reset requests.
services == <<transcription, formatted, limiter, files, transcribes, forgot>>

\* What only the REST routes, end_session and the services write.
stores == <<services, requests, progress, artworks>>

\* A socket as handleConnection leaves it: open, its handlers registered.
NewSocket == [status |-> "open", authenticated |-> FALSE, userId |-> NoUser,
              sessionId |-> NoSession]

NoRow == [exists |-> FALSE, userId |-> NoUser, transcript |-> NoTurn,
          predictions |-> Undefined, confidence |-> Undefined,
          successfulPredictions |-> 0, totalPredictions |-> 0, endedAt |-> NoTime,
          startedAt |-> NoTime, duration |-> NoTime, completedSentences |-> 0]

IdleTurn == [pc |-> "idle", conn |-> NoConn, userId |-> NoUser, sid |-> NoSession,
             history |-> <<>>, analysis |-> NoAnalysis, events |-> <<>>,
             calls |-> {}, failed |-> {}, stuck |-> FALSE]

\* A feedback event: where it came from, what it carries, and the row its
\* lookup returned (found FALSE: the lookup returned null).
IdleFeedback == [pc |-> "idle", via |-> "", userId |-> NoUser, sid |-> NoSession,
                 accepted |-> FALSE, found |-> FALSE, written |-> FALSE,
                 newSuccessful |-> 0, newTotal |-> 0]

\* Before the first transcription.
NoTranscription == [words |-> <<>>, confidence |-> Rat(0, 1)]

NoProgress == [exists |-> FALSE, totalSessions |-> 0]

\* A REST request on a session, as its handler last left it: status 0 while
\* no response has been sent, completedSentences the length of the array in
\* the body, existingSession the row its lookup returned, at the new Date()
\* it took, existingProgress what updateUserProgress found, artwork whether
\* it called generateMemoryGardenArt.
IdleRequest == [pc |-> "idle", route |-> "", userId |-> NoUser, sid |-> NoSession,
                status |-> 0, completedSentences |-> 0, existingSession |-> NoRow,
                at |-> NoTime, existingProgress |-> NoProgress, artwork |-> FALSE]

\* An end_session in flight: the session id passed to endSession, the
\* endedAt it took on entry, the progress record updateUserProgress found.
IdleEnding == [pc |-> "idle", sid |-> NoSession, endedAt |-> NoTime,
               existingProgress |-> NoProgress, reported |-> NoSession]

\* A start_session in flight: the user and the startedAt of the row being
\* created.
NoStart == [userId |-> NoUser, startedAt |-> NoTime]

\* userRateLimit before its first request: an empty Map, nothing decided.
\* log holds, oldest first, the user, the Date.now() and the outcome (200:
\* passed to next(), 429) of every request that came through the middleware.
NoLimiter == [created |-> FALSE, maxRequests |-> 0, windowMs |-> 0,
              requests |-> [u \in Users |-> <<>>], log |-> <<>>]

\* A transcribeAudio call: the buffer it was given (NoAudio: none), the
\* format, its tempFilePath, the bytes it sent to Whisper and how it ended.
NoAudio == 0
NoPath == <<NoTime, "">>
IdleTranscribe == [pc |-> "idle", audioBuffer |-> NoAudio, format |-> "",
                   tempFilePath |-> NoPath, sent |-> NoAudio, outcome |-> ""]

\* POST /forgot-password is run in two worlds that differ in whether the
\* account of the email exists.  A run: the email of its body, whether its
\* findUnique rejected, the response it sent (status 0: none yet), and the
\* world's counts of requests received and of audit log rows.
Worlds == {"account", "none"}
IdleForgot == [pc |-> "idle", email |-> Undefined, lookupFailed |-> FALSE,
               status |-> 0, message |-> "", handled |-> 0, audits |-> 0]
NoForgot == [w \in Worlds |-> IdleForgot]

\* The events the handlers emit outside processSpeechInput.
ConnEvents == {"authenticated", "authentication_error", "error", "processing_busy",
               "session_started", "session_error", "session_ended"}

Init ==
    /\ socket = [c \in Conns |-> NewSocket]
    /\ activeConnections = [u \in Users |-> NoConn]
    /\ processingQueue = {}
    /\ conversationContexts = [u \in Users |-> NoContext]
    /\ sessions = [s \in Rows |-> NoRow]
    /\ turns = [t \in Turns |-> IdleTurn]
    /\ emitted = [c \in Conns |-> [e \in ConnEvents |-> 0]]
    /\ received = 0
    /\ pendingStart = [c \in Conns |-> NoStart]
    /\ now = 0
    /\ lastSweep = 0
    /\ feedbacks = [f \in Feedbacks |-> IdleFeedback]
    /\ ending = [c \in Conns |-> IdleEnding]
    /\ millis = 0
    /\ transcription = NoTranscription
    /\ requests = [q \in Requests |-> IdleRequest]
    /\ progress = [u \in Users |-> NoProgress]
    /\ artworks = [s \in Rows |-> 0]
    /\ formatted = NoFormatted
    /\ limiter = NoLimiter
    /\ files = {}
    /\ transcribes = [k \in Calls |-> IdleTranscribe]
    /\ forgot = NoForgot

\* -------------------------------------------------------------- helpers
\* socket.emit(event, payload): the event and the part of the payload the
\* model keeps.
EmitArg(ev, arg) == [ev |-> ev, arg |-> arg]

Emit(ev) == EmitArg(ev, "")

EventNames(t) == [i \in 1..Len(turns[t].events) |-> turns[t].events[i].ev]

Count(seq, x) == Cardinality({i \in 1..Len(seq) : seq[i] = x})

Running(t) == turns[t].pc \notin {"idle", "done"}

Awaiting(t, call) == turns[t].pc = call /\ ~turns[t].stuck

CanReceive(c) == socket[c].status = "open" /\ received < MaxEvents

Reply(c, ev) ==
    /\ emitted' = [emitted EXCEPT ![c][ev] = @ + 1]
    /\ received' = received + 1

\* The rows of the session table and the creates in flight.
SessionsCreated ==
    Cardinality({s \in Rows : sessions[s].exists})
      + Cardinality({x \in Conns : pendingStart[x] # NoStart})
      + Cardinality({q \in Requests : requests[q].pc = "create"})

\* new Date(), in milliseconds.
DateNow == now * TimeUnitMs + millis

LastN(seq, n) == IF Len(seq) <= n THEN seq ELSE SubSeq(seq, Len(seq) - n + 1, Len(seq))

FreeTurn == CHOOSE t \in Turns : turns[t].pc = "idle" /\ \A x \in Turns : turns[x].pc = "idle" => t <= x

FreeSession == CHOOSE s \in Rows : ~sessions[s].exists /\ \A x \in Rows : ~sessions[x].exists => s <= x

\* ------------------------------------------------ OpenAIService (context)
ContextHistory == 5
ContextCap == 10

formatConversationHistoryWhole(context) == context

formatConversationHistory(context) == LastN(context, ContextHistory)

updateConversationContextUncapped(u, data) ==
    [conversationContexts EXCEPT ![u] = Append(conversationContexts[u], data)]

updateConversationContext(u, data) ==
    LET pushed == Append(conversationContexts[u], data)
    IN  [conversationContexts EXCEPT
            ![u] = IF Len(pushed) > ContextCap THEN LastN(pushed, ContextCap) ELSE pushed]

isRecentInclusive(t, item, maxAge) == (t - item.timestamp) <= maxAge

\* the filter of cleanupContexts: (now - new Date(item.timestamp).getTime()) < maxAge
isRecent(t, item, maxAge) == (t - item.timestamp) < maxAge

\* cleanupContexts with Date.now() = t; maxAge is a parameter here, the code
\* fixes it to MaxAge.
cleanupContexts(t, maxAge) ==
    [u \in Users |->
        LET filtered == SelectSeq(conversationContexts[u],
                                  LAMBDA item : isRecent(t, item, maxAge))
        IN  IF Len(filtered) = 0 THEN NoContext ELSE filtered]

\* ------------------------------------------------- connection handlers
verifiesAnything(token) == TRUE

\* jwt.verify(token, config.jwtSecret) returns the payload of a token signed
\* for a user and throws on any other.
verifies(token) == token \in Users

\* socket.on('authenticate'): jwt.verify yields decoded.id or throws.
Authenticate(c, token) ==
    /\ CanReceive(c)
    /\ IF verifies(token)
       THEN /\ socket' = [socket EXCEPT ![c].userId = token, ![c].authenticated = TRUE]
            /\ activeConnections' = [activeConnections EXCEPT ![token] = c]
            /\ Reply(c, "authenticated")
       ELSE /\ Reply(c, "authentication_error")
            /\ UNCHANGED <<socket, activeConnections>>
    /\ UNCHANGED <<processingQueue, conversationContexts, sessions, turns, pendingStart>>
    /\ UNCHANGED <<timers, feedbacks, ending>>
    /\ UNCHANGED stores

disconnectQueueKept(u) == processingQueue

\* handleDisconnection: processingQueue.delete(socket.userId)
disconnectQueue(u) == processingQueue \ {u}

handleDisconnection(c) ==
    /\ socket[c].status = "open"
    /\ socket' = [socket EXCEPT ![c].status = "closed"]
    /\ IF socket[c].userId # NoUser
       THEN /\ activeConnections' = [activeConnections EXCEPT ![socket[c].userId] = NoConn]
            /\ processingQueue' = disconnectQueue(socket[c].userId)
       ELSE UNCHANGED <<activeConnections, processingQueue>>
    /\ UNCHANGED <<conversationContexts, sessions, turns, emitted, received, pendingStart>>
    /\ UNCHANGED <<timers, feedbacks, ending>>
    /\ UNCHANGED stores

\* ------------------------------------------------------ start_session
StartSessionUpTo(c, limit) ==
    /\ CanReceive(c)
    /\ pendingStart[c] = NoStart
    /\ SessionsCreated < limit
    /\ IF ~socket[c].authenticated
       THEN /\ Reply(c, "error")
            /\ UNCHANGED pendingStart
       ELSE /\ pendingStart' = [pendingStart EXCEPT ![c] =
                    [userId |-> socket[c].userId, startedAt |-> DateNow]]
            /\ received' = received + 1
            /\ UNCHANGED emitted
    /\ UNCHANGED <<socket, activeConnections, processingQueue, conversationContexts,
                   sessions, turns>>
    /\ UNCHANGED <<timers, feedbacks, ending>>
    /\ UNCHANGED stores

StartSession(c) == StartSessionUpTo(c, MaxSessions)

\* prisma.session.create resolves: the row exists, the handler resumes.
SessionCreated(c) ==
    /\ pendingStart[c] # NoStart
    /\ LET s == FreeSession
       IN  /\ sessions' = [sessions EXCEPT ![s] = [NoRow EXCEPT !.exists = TRUE,
                                              !.userId = pendingStart[c].userId,
                                              !.startedAt = pendingStart[c].startedAt]]
           /\ socket' = [socket EXCEPT ![c].sessionId = s]
    /\ pendingStart' = [pendingStart EXCEPT ![c] = NoStart]
    /\ emitted' = [emitted EXCEPT ![c]["session_started"] = @ + 1]
    /\ UNCHANGED <<activeConnections, processingQueue, conversationContexts, turns, received>>
    /\ UNCHANGED <<timers, feedbacks, ending>>
    /\ UNCHANGED stores

SessionCreateFails(c) ==
    /\ pendingStart[c] # NoStart
    /\ pendingStart' = [pendingStart EXCEPT ![c] = NoStart]
    /\ emitted' = [emitted EXCEPT ![c]["session_error"] = @ + 1]
    /\ UNCHANGED <<socket, activeConnections, processingQueue, conversationContexts,
                   sessions, turns, received>>
    /\ UNCHANGED <<timers, feedbacks, ending>>
    /\ UNCHANGED stores

\* ------------------------------------------------------ turn pipeline
hasFlagNever(u) == FALSE

hasFlagOfAnyone(u) == processingQueue # {}

\* processingQueue.has(userId)
hasFlag(u) == u \in processingQueue

finallyQueueKept(u) == processingQueue

\* finally: processingQueue.delete(userId)
finallyQueue(u) == processingQueue \ {u}

finallyEventsOnSuccess(thrown) ==
    IF thrown THEN <<Emit("processing_error")>> ELSE <<Emit("processing_complete")>>

\* finally: emit processing_complete; a rejection then reaches the catch of
\* the process_speech handler, which emits processing_error.
finallyEvents(thrown) ==
    <<Emit("processing_complete")>>
        \o (IF thrown THEN <<Emit("processing_error")>> ELSE <<>>)

onTranscribed == <<Emit("transcription_ready")>>

onAnalyzedMissing == <<>>

onAnalyzed == <<Emit("predictions_ready")>>

onVisualAidMissing == <<>>

onVisualAid == <<Emit("visual_aid_ready")>>

visualAidWanted(a) == Truthy(a.visualAidSuggested) /\ Truthy(a.visualConcept)

visualFailureRethrown == TRUE

\* the inner try/catch around generateVisualAid swallows the rejection
visualFailureThrows == FALSE

audioHintStepForAnyText(a) ==
    IF Truthy(a.audioHintSuggested)
    THEN <<EmitArg("audio_hint_ready",
                   IF a.assistanceLevel = "high" THEN "immediate" ELSE "gentle")>>
    ELSE <<>>

audioHintStep(a) ==
    IF Truthy(a.audioHintSuggested) /\ Truthy(a.audioHintText)
    THEN <<EmitArg("audio_hint_ready",
                   IF a.assistanceLevel = "high" THEN "immediate" ELSE "gentle")>>
    ELSE <<>>

\* The turn leaves the try block: finally, and the handler's catch if thrown.
Complete(t, tr, thrown) ==
    /\ turns' = [turns EXCEPT ![t] =
            [tr EXCEPT !.pc = "done",
                       !.events = tr.events \o finallyEvents(thrown)]]
    /\ processingQueue' = finallyQueue(tr.userId)

Throw(t, stage) ==
    Complete(t, [turns[t] EXCEPT !.failed = @ \cup {stage}], TRUE)

\* Steps 4 and 5 of the pipeline: the audio hint, then the session update.
AfterVisualAid(t, tr) ==
    LET hinted == [tr EXCEPT !.events = tr.events \o audioHintStep(tr.analysis)]
        sid == socket[tr.conn].sessionId
    IN  IF sid # NoSession
        THEN /\ turns' = [turns EXCEPT ![t] =
                    [hinted EXCEPT !.pc = "session", !.sid = sid,
                                   !.calls = @ \cup {"session"}]]
             /\ UNCHANGED processingQueue
        ELSE Complete(t, hinted, FALSE)

isAuthenticatedAlways(c) == TRUE

\* the guard of the process_speech handler: socket.authenticated
isAuthenticated(c) == socket[c].authenticated

\* socket.on('process_speech') up to the first await of processSpeechInput.
ProcessSpeech(c) ==
    /\ CanReceive(c)
    /\ IF ~isAuthenticated(c)
       THEN /\ Reply(c, "error")
            /\ UNCHANGED <<turns, processingQueue>>
       ELSE IF hasFlag(socket[c].userId)
       THEN /\ Reply(c, "processing_busy")
            /\ UNCHANGED <<turns, processingQueue>>
       ELSE /\ \E t \in Turns : turns[t].pc = "idle"
            /\ processingQueue' = processingQueue \cup {socket[c].userId}
            /\ turns' = [turns EXCEPT ![FreeTurn] =
                    [IdleTurn EXCEPT !.pc = "transcribe", !.conn = c,
                                     !.userId = socket[c].userId,
                                     !.events = <<Emit("processing_started")>>,
                                     !.calls = {"transcribe"}]]
            /\ received' = received + 1
            /\ UNCHANGED emitted
    /\ UNCHANGED <<socket, activeConnections, conversationContexts, sessions, pendingStart>>
    /\ UNCHANGED <<timers, feedbacks, ending>>
    /\ UNCHANGED stores

TranscribeReturns(t) ==
    /\ Awaiting(t, "transcribe")
    /\ turns' = [turns EXCEPT ![t].pc = "profile",
                              ![t].events = @ \o onTranscribed,
                              ![t].calls = @ \cup {"profile"}]
    /\ UNCHANGED <<socket, activeConnections, processingQueue, conversationContexts,
                   sessions, emitted, received, pendingStart>>
    /\ UNCHANGED <<timers, feedbacks, ending>>
    /\ UNCHANGED stores

TranscribeFails(t) ==
    /\ Awaiting(t, "transcribe")
    /\ Throw(t, "transcribe")
    /\ UNCHANGED <<socket, activeConnections, conversationContexts, sessions,
                   emitted, received, pendingStart>>
    /\ UNCHANGED <<timers, feedbacks, ending>>
    /\ UNCHANGED stores

\* prisma.user.findUnique resolves; processMultimodalInput runs up to the
\* chat completion call, reading the user's context on the way.
ProfileReturns(t) ==
    /\ Awaiting(t, "profile")
    /\ turns' = [turns EXCEPT
            ![t].pc = "analyze",
            ![t].history = formatConversationHistory(conversationContexts[turns[t].userId]),
            ![t].calls = @ \cup {"analyze"}]
    /\ UNCHANGED <<socket, activeConnections, processingQueue, conversationContexts,
                   sessions, emitted, received, pendingStart>>
    /\ UNCHANGED <<timers, feedbacks, ending>>
    /\ UNCHANGED stores

ProfileFails(t) ==
    /\ Awaiting(t, "profile")
    /\ Throw(t, "profile")
    /\ UNCHANGED <<socket, activeConnections, conversationContexts, sessions,
                   emitted, received, pendingStart>>
    /\ UNCHANGED <<timers, feedbacks, ending>>
    /\ UNCHANGED stores

\* The chat completion resolves and its content parses to `parsed`.
AnalyzeReturns(t, parsed) ==
    /\ Awaiting(t, "analyze")
    /\ conversationContexts' =
            updateConversationContext(turns[t].userId,
                                      [transcription |-> t, analysis |-> parsed,
                                       timestamp |-> now])
    /\ IF parsed.isNull
       THEN \* formatAnalysisResponse(null) throws a TypeError
            Throw(t, "analyze")
       ELSE LET a == formatAnalysisResponse(parsed)
                tr == [turns[t] EXCEPT !.analysis = a,
                                       !.events = @ \o onAnalyzed]
            IN  IF visualAidWanted(a)
                THEN /\ turns' = [turns EXCEPT ![t] =
                            [tr EXCEPT !.pc = "visual", !.calls = @ \cup {"visual"}]]
                     /\ UNCHANGED processingQueue
                ELSE AfterVisualAid(t, tr)
    /\ UNCHANGED <<socket, activeConnections, sessions, emitted, received, pendingStart>>
    /\ UNCHANGED <<timers, feedbacks, ending>>
    /\ UNCHANGED stores

\* The chat completion rejects, or JSON.parse throws on its content.
AnalyzeFails(t) ==
    /\ Awaiting(t, "analyze")
    /\ Throw(t, "analyze")
    /\ UNCHANGED <<socket, activeConnections, conversationContexts, sessions,
                   emitted, received, pendingStart>>
    /\ UNCHANGED <<timers, feedbacks, ending>>
    /\ UNCHANGED stores

VisualAidReturns(t) ==
    /\ Awaiting(t, "visual")
    /\ AfterVisualAid(t, [turns[t] EXCEPT !.events = @ \o onVisualAid])
    /\ UNCHANGED <<socket, activeConnections, conversationContexts, sessions,
                   emitted, received, pendingStart>>
    /\ UNCHANGED <<timers, feedbacks, ending>>
    /\ UNCHANGED stores

VisualAidFails(t) ==
    /\ Awaiting(t, "visual")
    /\ IF visualFailureThrows
       THEN Throw(t, "visual")
       ELSE AfterVisualAid(t, [turns[t] EXCEPT !.failed = @ \cup {"visual"}])
    /\ UNCHANGED <<socket, activeConnections, conversationContexts, sessions,
                   emitted, received, pendingStart>>
    /\ UNCHANGED <<timers, feedbacks, ending>>
    /\ UNCHANGED stores

updateSessionData(sid, t, a) ==
    [sessions EXCEPT ![sid].transcript = t,
                     ![sid].predictions = a.predictions,
                     ![sid].confidence = a.confidence]

SessionUpdateReturns(t) ==
    /\ Awaiting(t, "session")
    /\ sessions' = updateSessionData(turns[t].sid, t, turns[t].analysis)
    /\ Complete(t, turns[t], FALSE)
    /\ UNCHANGED <<socket, activeConnections, conversationContexts,
                   emitted, received, pendingStart>>
    /\ UNCHANGED <<timers, feedbacks, ending>>
    /\ UNCHANGED stores

SessionUpdateFails(t) ==
    /\ Awaiting(t, "session")
    /\ Throw(t, "session")
    /\ UNCHANGED <<socket, activeConnections, conversationContexts, sessions,
                   emitted, received, pendingStart>>
    /\ UNCHANGED <<timers, feedbacks, ending>>
    /\ UNCHANGED stores

\* A call to the AI service that never settles: no timeout is set on it.
RemoteCallHangs(t) ==
    /\ turns[t].pc \in {"transcribe", "analyze", "visual"}
    /\ ~turns[t].stuck
    /\ turns' = [turns EXCEPT ![t].stuck = TRUE]
    /\ UNCHANGED <<socket, activeConnections, processingQueue, conversationContexts,
                   sessions, emitted, received, pendingStart>>
    /\ UNCHANGED <<timers, feedbacks, ending>>
    /\ UNCHANGED stores

\* The promise a turn awaits settles, one way or the other.
Settles(t) ==
    \/ TranscribeReturns(t) \/ TranscribeFails(t)
    \/ ProfileReturns(t) \/ ProfileFails(t)
    \/ (\E parsed \in ParsedAnalyses : AnalyzeReturns(t, parsed)) \/ AnalyzeFails(t)
    \/ VisualAidReturns(t) \/ VisualAidFails(t)
    \/ SessionUpdateReturns(t) \/ SessionUpdateFails(t)

\* Everything but the close of a connection.
Handles ==
    \/ \E c \in Conns : \E token \in Users \cup {"invalid"} : Authenticate(c, token)
    \/ \E c \in Conns : StartSession(c)
    \/ \E c \in Conns : SessionCreated(c)
    \/ \E c \in Conns : SessionCreateFails(c)
    \/ \E c \in Conns : ProcessSpeech(c)
    \/ \E t \in Turns : TranscribeReturns(t)
    \/ \E t \in Turns : TranscribeFails(t)
    \/ \E t \in Turns : ProfileReturns(t)
    \/ \E t \in Turns : ProfileFails(t)
    \/ \E t \in Turns : \E parsed \in ParsedAnalyses : AnalyzeReturns(t, parsed)
    \/ \E t \in Turns : AnalyzeFails(t)
    \/ \E t \in Turns : VisualAidReturns(t)
    \/ \E t \in Turns : VisualAidFails(t)
    \/ \E t \in Turns : SessionUpdateReturns(t)
    \/ \E t \in Turns : SessionUpdateFails(t)

Next ==
    \/ Handles
    \/ \E c \in Conns : handleDisconnection(c)

Spec == Init /\ [][Next]_vars

\* The program while every connection stays open, with the remote calls that
\* never settle made explicit.  Node runs the continuation of every promise
\* that settles; a call that hangs has no continuation to run.
NextOpen ==
    \/ Handles
    \/ \E t \in Turns : RemoteCallHangs(t)

OpenSpec == Init /\ [][NextOpen]_vars /\ \A t \in Turns : WF_vars(Settles(t))

\* ------------------------------------------------------------ feedback
FreeFeedback == CHOOSE f \in Feedbacks : feedbacks[f].pc = "idle" /\ \A x \in Feedbacks : feedbacks[x].pc = "idle" => f <= x

newTotalKept(session) == session.totalPredictions

\* const newTotal = session.totalPredictions + 1
newTotal(session) == session.totalPredictions + 1

\* const newSuccessful = session.successfulPredictions + (predictionAccepted ? 1 : 0)
newSuccessful(session, predictionAccepted) ==
    session.successfulPredictions + (IF predictionAccepted THEN 1 ELSE 0)

\* Both feedback paths, up to their session lookup: the feedback carries the
\* session id sid (NoSession: none) and predictionAccepted.
StartFeedback(via, u, sid, accepted) ==
    /\ received' = received + 1
    /\ IF sid = NoSession
       THEN UNCHANGED feedbacks
       ELSE /\ \E f \in Feedbacks : feedbacks[f].pc = "idle"
            /\ feedbacks' = [feedbacks EXCEPT ![FreeFeedback] =
                    [IdleFeedback EXCEPT !.pc = "find", !.via = via, !.userId = u,
                                         !.sid = sid, !.accepted = accepted]]
    /\ UNCHANGED <<socket, activeConnections, processingQueue, conversationContexts,
                   sessions, turns, emitted, pendingStart, timers, ending>>
    /\ UNCHANGED stores

\* socket.on('feedback'): ignored without a word when not authenticated.
Feedback(c, sid, accepted) ==
    /\ CanReceive(c)
    /\ IF ~socket[c].authenticated
       THEN /\ received' = received + 1
            /\ UNCHANGED <<socket, activeConnections, processingQueue,
                           conversationContexts, sessions, turns, emitted,
                           pendingStart, timers, feedbacks, ending, stores>>
       ELSE StartFeedback("socket", socket[c].userId, sid, accepted)

\* POST /feedback of the REST client authenticated as user u.
RestFeedback(u, sid, accepted) ==
    /\ received < MaxEvents
    /\ StartFeedback("rest", u, sid, accepted)

\* What the lookup of a feedback returns: processFeedback looks the session
\* up by id alone, the REST route by id and owner.
lookupSession(fb) ==
    /\ sessions[fb.sid].exists
    /\ fb.via = "rest" => sessions[fb.sid].userId = fb.userId

\* The session lookup resolves; with a row, the new counters are computed
\* from it and the update is issued.
FeedbackFound(f) ==
    /\ feedbacks[f].pc = "find"
    /\ LET fb == feedbacks[f]
           session == sessions[fb.sid]
       IN  feedbacks' = [feedbacks EXCEPT ![f] =
               IF lookupSession(fb)
               THEN [fb EXCEPT !.pc = "update", !.found = TRUE,
                               !.newSuccessful = newSuccessful(session, fb.accepted),
                               !.newTotal = newTotal(session)]
               ELSE [fb EXCEPT !.pc = "done"]]
    /\ UNCHANGED <<socket, activeConnections, processingQueue, conversationContexts,
                   sessions, turns, emitted, received, pendingStart, timers, ending>>
    /\ UNCHANGED stores

\* prisma.session.update resolves.
FeedbackUpdated(f) ==
    /\ feedbacks[f].pc = "update"
    /\ sessions' = [sessions EXCEPT
            ![feedbacks[f].sid].successfulPredictions = feedbacks[f].newSuccessful,
            ![feedbacks[f].sid].totalPredictions = feedbacks[f].newTotal]
    /\ feedbacks' = [feedbacks EXCEPT ![f].pc = "done", ![f].written = TRUE]
    /\ UNCHANGED <<socket, activeConnections, processingQueue, conversationContexts,
                   turns, emitted, received, pendingStart, timers, ending>>
    /\ UNCHANGED stores

\* The lookup or the update rejects: logged, or answered with status 500.
FeedbackFails(f) ==
    /\ feedbacks[f].pc \in {"find", "update"}
    /\ feedbacks' = [feedbacks EXCEPT ![f].pc = "done"]
    /\ UNCHANGED <<socket, activeConnections, processingQueue, conversationContexts,
                   sessions, turns, emitted, received, pendingStart, timers, ending>>
    /\ UNCHANGED stores

\* Sessions being started and feedback arriving on both paths.
NextFeedback ==
    \/ \E c \in Conns : \E token \in Users : Authenticate(c, token)
    \/ \E c \in Conns : StartSession(c)
    \/ \E c \in Conns : SessionCreated(c)
    \/ \E c \in Conns : \E sid \in SessionIds \cup {NoSession} :
            \E accepted \in BOOLEAN : Feedback(c, sid, accepted)
    \/ \E u \in Users : \E sid \in SessionIds \cup {NoSession} :
            \E accepted \in BOOLEAN : RestFeedback(u, sid, accepted)
    \/ \E f \in Feedbacks : FeedbackFound(f)
    \/ \E f \in Feedbacks : FeedbackUpdated(f)
    \/ \E f \in Feedbacks : FeedbackFails(f)

FeedbackSpec == Init /\ [][NextFeedback]_vars

\* ---------------------------------------------------------- sessions end
\* Math.round in place of Math.floor.
durationRounded(endedAt, startedAt) == (endedAt - startedAt + 500) \div 1000

\* Math.floor((endedAt - startedAt) / 1000).
duration(endedAt, startedAt) == (endedAt - startedAt) \div 1000

\* A lookup by the session's id alone.
findFirstById(u, sid) == sid # NoSession /\ sessions[sid].exists

\* prisma.session.findFirst({ where: { id, userId } }) of the REST routes.
findFirst(u, sid) == sid # NoSession /\ sessions[sid].exists /\ sessions[sid].userId = u

\* The write updateUserProgress issues after its findUnique returned
\* existing: an update that adds one session to what was read, or the
\* create of a first record.  The key userId_date is unique: the create
\* of a record that exists by now rejects.
progressWritten(u, existing) ==
    IF existing.exists
    THEN [progress EXCEPT ![u].totalSessions = existing.totalSessions + 1]
    ELSE [progress EXCEPT ![u] = [exists |-> TRUE, totalSessions |-> 1]]

progressWriteRejects(u, existing) == ~existing.exists /\ progress[u].exists

\* socket.on('end_session') up to the findUnique of endSession.
EndSession(c) ==
    /\ CanReceive(c)
    /\ ending[c].pc = "idle"
    /\ received' = received + 1
    /\ IF ~socket[c].authenticated \/ socket[c].sessionId = NoSession
       THEN UNCHANGED ending
       ELSE ending' = [ending EXCEPT ![c] =
                [IdleEnding EXCEPT !.pc = "find", !.sid = socket[c].sessionId,
                                   !.endedAt = DateNow]]
    /\ UNCHANGED <<socket, activeConnections, processingQueue, conversationContexts,
                   sessions, turns, emitted, pendingStart, timers, feedbacks>>
    /\ UNCHANGED stores

\* findUnique resolves: without a row endSession throws and the handler's
\* catch logs; with one, the update is issued.
EndSessionFound(c) ==
    /\ ending[c].pc = "find"
    /\ ending' = [ending EXCEPT ![c] =
            IF sessions[ending[c].sid].exists
            THEN [ending[c] EXCEPT !.pc = "update"]
            ELSE IdleEnding]
    /\ UNCHANGED <<socket, activeConnections, processingQueue, conversationContexts,
                   sessions, turns, emitted, received, pendingStart, timers, feedbacks>>
    /\ UNCHANGED stores

\* prisma.session.update resolves: the row is ended; updateUserProgress is
\* called.
EndSessionUpdated(c) ==
    /\ ending[c].pc = "update"
    /\ LET session == sessions[ending[c].sid]
       IN  sessions' = [sessions EXCEPT ![ending[c].sid] =
               [session EXCEPT !.endedAt = ending[c].endedAt,
                               !.duration = duration(ending[c].endedAt,
                                                     session.startedAt)]]
    /\ ending' = [ending EXCEPT ![c].pc = "progress"]
    /\ UNCHANGED <<socket, activeConnections, processingQueue, conversationContexts,
                   turns, emitted, received, pendingStart, timers, feedbacks>>
    /\ UNCHANGED stores

\* The findUnique of updateUserProgress resolves: the update or the create
\* of the record is issued.
EndSessionProgressFound(c) ==
    /\ ending[c].pc = "progress"
    /\ ending' = [ending EXCEPT ![c].pc = "progressWrite",
                                ![c].existingProgress =
                                    progress[sessions[ending[c].sid].userId]]
    /\ UNCHANGED <<socket, activeConnections, processingQueue, conversationContexts,
                   sessions, turns, emitted, received, pendingStart, timers, feedbacks>>
    /\ UNCHANGED stores

\* The write of updateUserProgress resolves, endSession returns:
\* session_ended is emitted and the socket's session id deleted.
EndSessionReturns(c) ==
    /\ ending[c].pc = "progressWrite"
    /\ LET u == sessions[ending[c].sid].userId
       IN  /\ ~progressWriteRejects(u, ending[c].existingProgress)
           /\ progress' = progressWritten(u, ending[c].existingProgress)
    /\ emitted' = [emitted EXCEPT ![c]["session_ended"] = @ + 1]
    /\ socket' = [socket EXCEPT ![c].sessionId = NoSession]
    /\ ending' = [ending EXCEPT ![c] = [IdleEnding EXCEPT !.reported = socket[c].sessionId]]
    /\ UNCHANGED <<activeConnections, processingQueue, conversationContexts, sessions,
                   turns, received, pendingStart, timers, feedbacks>>
    /\ UNCHANGED <<services, requests, artworks>>

\* One of the awaits of endSession or of its updateUserProgress rejects:
\* the handler's catch logs, emits nothing and keeps the socket's session id.
EndSessionFails(c) ==
    /\ ending[c].pc \in {"find", "update", "progress", "progressWrite"}
    /\ ending' = [ending EXCEPT ![c] = IdleEnding]
    /\ UNCHANGED <<socket, activeConnections, processingQueue, conversationContexts,
                   sessions, turns, emitted, received, pendingStart, timers, feedbacks>>
    /\ UNCHANGED stores

\* The create of updateUserProgress rejects on the unique key.
EndSessionProgressRejected(c) ==
    /\ ending[c].pc = "progressWrite"
    /\ progressWriteRejects(sessions[ending[c].sid].userId, ending[c].existingProgress)
    /\ EndSessionFails(c)

\* Sessions started and ended over the socket while turns whose stages
\* succeed run on them.
NextEnding ==
    \/ \E c \in Conns : \E token \in Users : Authenticate(c, token)
    \/ \E c \in Conns : StartSession(c)
    \/ \E c \in Conns : SessionCreated(c)
    \/ \E c \in Conns : ProcessSpeech(c)
    \/ \E t \in Turns : TranscribeReturns(t)
    \/ \E t \in Turns : ProfileReturns(t)
    \/ \E t \in Turns : AnalyzeReturns(t, PlainParsed)
    \/ \E t \in Turns : SessionUpdateReturns(t)
    \/ \E c \in Conns : EndSession(c)
    \/ \E c \in Conns : EndSessionFound(c)
    \/ \E c \in Conns : EndSessionUpdated(c)
    \/ \E c \in Conns : EndSessionProgressFound(c)
    \/ \E c \in Conns : EndSessionReturns(c)
    \/ \E c \in Conns : EndSessionFails(c)

EndingSpec == Init /\ [][NextEnding]_vars

\* ------------------------------------------------ the session routes
\* The routes run behind authenticateToken: u is the user of the verified
\* token.  A body carries completedSentences or not; the model keeps the
\* length of the array.
NoSentences == -1
Bodies == {NoSentences, 3}
EndBodies == Bodies \cup {2}

FreeRequest == CHOOSE q \in Requests : requests[q].pc = "idle" /\ \A x \in Requests : requests[x].pc = "idle" => q <= x

CanRequest == received < MaxEvents /\ \E q \in Requests : requests[q].pc = "idle"

\* res.status(status).json(...): the handler is over, what it held is gone.
Respond(q, status) ==
    [requests EXCEPT ![q] = [IdleRequest EXCEPT !.pc = "done", !.status = status,
                                                !.route = requests[q].route,
                                                !.userId = requests[q].userId,
                                                !.sid = requests[q].sid,
                                                !.artwork = requests[q].artwork]]

\* POST /session/start up to its prisma.session.create.
RestStart(u) ==
    /\ CanRequest
    /\ SessionsCreated < MaxSessions
    /\ requests' = [requests EXCEPT ![FreeRequest] =
            [IdleRequest EXCEPT !.pc = "create", !.route = "start", !.userId = u,
                                !.at = DateNow]]
    /\ received' = received + 1
    /\ UNCHANGED <<socket, activeConnections, processingQueue, conversationContexts,
                   sessions, turns, emitted, pendingStart, timers, feedbacks, ending>>
    /\ UNCHANGED <<services, progress, artworks>>

\* The create resolves: the row exists and the route answers with its id.
RestStartCreated(q) ==
    /\ requests[q].pc = "create"
    /\ LET s == FreeSession
       IN  /\ sessions' = [sessions EXCEPT ![s] =
                   [NoRow EXCEPT !.exists = TRUE, !.userId = requests[q].userId,
                                 !.startedAt = requests[q].at, !.predictions = "{}"]]
           /\ requests' = [Respond(q, 200) EXCEPT ![q].sid = s]
    /\ UNCHANGED <<socket, activeConnections, processingQueue, conversationContexts,
                   turns, emitted, received, pendingStart, timers, feedbacks, ending>>
    /\ UNCHANGED <<services, progress, artworks>>

\* PUT /session/:sessionId/update and POST /session/:sessionId/end up to
\* their findFirst.
RestRequest(route, u, sid, sentences) ==
    /\ CanRequest
    /\ requests' = [requests EXCEPT ![FreeRequest] =
            [IdleRequest EXCEPT !.pc = "find", !.route = route, !.userId = u,
                                !.sid = sid, !.completedSentences = sentences]]
    /\ received' = received + 1
    /\ UNCHANGED <<socket, activeConnections, processingQueue, conversationContexts,
                   sessions, turns, emitted, pendingStart, timers, feedbacks, ending>>
    /\ UNCHANGED <<services, progress, artworks>>

RestUpdate(u, sid, sentences) == RestRequest("update", u, sid, sentences)

\* completedSentences = [] where the body has none.
RestEnd(u, sid, sentences) ==
    RestRequest("end", u, sid, IF sentences = NoSentences THEN 0 ELSE sentences)

\* The findFirst resolves: 404 without a row of the user; with one the
\* update of the row is issued, by the end route with its endedAt and
\* duration.
RestFound(q) ==
    /\ requests[q].pc = "find"
    /\ requests' =
          IF ~findFirst(requests[q].userId, requests[q].sid)
          THEN Respond(q, 404)
          ELSE [requests EXCEPT ![q].pc = "write",
                                ![q].existingSession = sessions[requests[q].sid],
                                ![q].at = IF requests[q].route = "end" THEN DateNow
                                                                       ELSE NoTime]
    /\ UNCHANGED <<socket, activeConnections, processingQueue, conversationContexts,
                   sessions, turns, emitted, received, pendingStart, timers, feedbacks,
                   ending>>
    /\ UNCHANGED <<services, progress, artworks>>

\* The update of the update route resolves: what the body does not carry is
\* written back as the lookup returned it.
RestUpdateWritten(q) ==
    /\ requests[q].pc = "write"
    /\ requests[q].route = "update"
    /\ LET existingSession == requests[q].existingSession
       IN  sessions' = [sessions EXCEPT ![requests[q].sid] =
               [@ EXCEPT !.transcript = existingSession.transcript,
                         !.predictions = existingSession.predictions,
                         !.confidence = existingSession.confidence,
                         !.completedSentences =
                             IF requests[q].completedSentences = NoSentences
                             THEN existingSession.completedSentences
                             ELSE requests[q].completedSentences]]
    /\ requests' = Respond(q, 200)
    /\ UNCHANGED <<socket, activeConnections, processingQueue, conversationContexts,
                   turns, emitted, received, pendingStart, timers, feedbacks, ending>>
    /\ UNCHANGED <<services, progress, artworks>>

\* The update of the end route resolves: the row is ended;
\* updateUserProgress is called.
RestEndWritten(q) ==
    /\ requests[q].pc = "write"
    /\ requests[q].route = "end"
    /\ sessions' = [sessions EXCEPT ![requests[q].sid] =
            [@ EXCEPT !.endedAt = requests[q].at,
                      !.duration = duration(requests[q].at,
                                            requests[q].existingSession.startedAt),
                      !.completedSentences = requests[q].completedSentences]]
    /\ requests' = [requests EXCEPT ![q].pc = "progress"]
    /\ UNCHANGED <<socket, activeConnections, processingQueue, conversationContexts,
                   turns, emitted, received, pendingStart, timers, feedbacks, ending>>
    /\ UNCHANGED <<services, progress, artworks>>

\* The findUnique of updateUserProgress resolves.
RestProgressFound(q) ==
    /\ requests[q].pc = "progress"
    /\ requests' = [requests EXCEPT ![q].pc = "progressWrite",
                                    ![q].existingProgress = progress[requests[q].userId]]
    /\ UNCHANGED <<socket, activeConnections, processingQueue, conversationContexts,
                   sessions, turns, emitted, received, pendingStart, timers, feedbacks,
                   ending>>
    /\ UNCHANGED <<services, progress, artworks>>

\* if (completedSentences.length >= 3)
artworkWanted(sentences) == sentences >= 3

\* The write of updateUserProgress settles, a rejection caught by the
\* helper: with three completed sentences in the body the route calls
\* generateMemoryGardenArt, else it answers.
RestProgressWritten(q) ==
    /\ requests[q].pc = "progressWrite"
    /\ progress' = IF progressWriteRejects(requests[q].userId, requests[q].existingProgress)
                   THEN progress
                   ELSE progressWritten(requests[q].userId, requests[q].existingProgress)
    /\ IF artworkWanted(requests[q].completedSentences)
       THEN /\ artworks' = [artworks EXCEPT ![requests[q].sid] = @ + 1]
            /\ requests' = [requests EXCEPT ![q].pc = "artwork", ![q].artwork = TRUE]
       ELSE /\ requests' = Respond(q, 200)
            /\ UNCHANGED artworks
    /\ UNCHANGED <<socket, activeConnections, processingQueue, conversationContexts,
                   sessions, turns, emitted, received, pendingStart, timers, feedbacks,
                   ending>>
    /\ UNCHANGED services

\* generateMemoryGardenArt and the create of the garden row settle, a
\* rejection caught by the route: it answers.
RestArtworkSettles(q) ==
    /\ requests[q].pc = "artwork"
    /\ requests' = Respond(q, 200)
    /\ UNCHANGED <<socket, activeConnections, processingQueue, conversationContexts,
                   sessions, turns, emitted, received, pendingStart, timers, feedbacks,
                   ending>>
    /\ UNCHANGED <<services, progress, artworks>>

\* Time passes within the unit.
Instants == {999, 1000}

MillisPass ==
    /\ \E m \in Instants : m > millis /\ millis' = m
    /\ UNCHANGED <<socket, activeConnections, processingQueue, conversationContexts,
                   sessions, turns, emitted, received, pendingStart, now, lastSweep,
                   feedbacks, ending>>
    /\ UNCHANGED stores

\* Sessions started over the socket and ended over the socket, where any
\* await of endSession may reject, and over the route by requests without a
\* body, while time passes.
NextSession ==
    \/ \E c \in Conns : \E token \in Users : Authenticate(c, token)
    \/ \E c \in Conns : StartSession(c)
    \/ \E c \in Conns : SessionCreated(c)
    \/ \E c \in Conns : EndSession(c)
    \/ \E c \in Conns : EndSessionFound(c)
    \/ \E c \in Conns : EndSessionUpdated(c)
    \/ \E c \in Conns : EndSessionProgressFound(c)
    \/ \E c \in Conns : EndSessionReturns(c)
    \/ \E c \in Conns : EndSessionFails(c)
    \/ \E u \in Users : \E sid \in SessionIds : RestEnd(u, sid, NoSentences)
    \/ \E q \in Requests : RestFound(q)
    \/ \E q \in Requests : RestEndWritten(q)
    \/ \E q \in Requests : RestProgressFound(q)
    \/ \E q \in Requests : RestProgressWritten(q)
    \/ MillisPass

SessionSpec == Init /\ [][NextSession]_vars

\* The same without the clock, the sessions also updated over the route.
NextGarden ==
    \/ \E c \in Conns : \E token \in Users : Authenticate(c, token)
    \/ \E c \in Conns : StartSession(c)
    \/ \E c \in Conns : SessionCreated(c)
    \/ \E c \in Conns : EndSession(c)
    \/ \E c \in Conns : EndSessionFound(c)
    \/ \E c \in Conns : EndSessionUpdated(c)
    \/ \E c \in Conns : EndSessionProgressFound(c)
    \/ \E c \in Conns : EndSessionReturns(c)
    \/ \E c \in Conns : EndSessionProgressRejected(c)
    \/ \E u \in Users : \E sid \in SessionIds : \E n \in Bodies : RestUpdate(u, sid, n)
    \/ \E u \in Users : \E sid \in SessionIds : \E n \in EndBodies : RestEnd(u, sid, n)
    \/ \E q \in Requests : RestFound(q)
    \/ \E q \in Requests : RestUpdateWritten(q)
    \/ \E q \in Requests : RestEndWritten(q)
    \/ \E q \in Requests : RestProgressFound(q)
    \/ \E q \in Requests : RestProgressWritten(q)
    \/ \E q \in Requests : RestArtworkSettles(q)

GardenSpec == Init /\ [][NextGarden]_vars

\* The routes alone.
NextRest ==
    \/ \E u \in Users : RestStart(u)
    \/ \E q \in Requests : RestStartCreated(q)
    \/ \E u \in Users : \E sid \in SessionIds : \E n \in Bodies : RestUpdate(u, sid, n)
    \/ \E u \in Users : \E sid \in SessionIds : \E n \in Bodies : RestEnd(u, sid, n)
    \/ \E q \in Requests : RestFound(q)
    \/ \E q \in Requests : RestUpdateWritten(q)
    \/ \E q \in Requests : RestEndWritten(q)
    \/ \E q \in Requests : RestProgressFound(q)
    \/ \E q \in Requests : RestProgressWritten(q)
    \/ \E q \in Requests : RestArtworkSettles(q)

RestSpec == Init /\ [][NextRest]_vars

\* ------------------------------------------------- turns and their hints
\* Turns whose stages succeed, over the completions of HintAnalyses.
NextHint ==
    \/ \E c \in Conns : \E token \in Users : Authenticate(c, token)
    \/ \E c \in Conns : ProcessSpeech(c)
    \/ \E t \in Turns : TranscribeReturns(t)
    \/ \E t \in Turns : ProfileReturns(t)
    \/ \E t \in Turns : \E parsed \in HintAnalyses : AnalyzeReturns(t, parsed)

HintSpec == Init /\ [][NextHint]_vars

\* ------------------------------------------ the context store by itself
\* The tail of processMultimodalInput for one analysis of user u whose
\* completion parsed: the entry is stamped and appended.  Its transcription
\* is numbered by the analyses stored so far, which tells the entries apart.
AnalysisStoredUpTo(u, limit) ==
    /\ received < limit
    /\ received' = received + 1
    /\ conversationContexts' =
            updateConversationContext(u,
                [transcription |-> received + 1,
                 analysis |-> PlainParsed,
                 timestamp |-> now])
    /\ UNCHANGED <<socket, activeConnections, processingQueue, sessions, turns,
                   emitted, pendingStart, timers, feedbacks, ending>>
    /\ UNCHANGED stores

AnalysisStored(u) == AnalysisStoredUpTo(u, MaxAppends)

NextStore == \E u \in Users : AnalysisStored(u)

StoreSpec == Init /\ [][NextStore]_vars

\* A shorter run of analyses, among them turns that get as far as building
\* their analysis request.
NextHistory ==
    \/ \E u \in Users : AnalysisStoredUpTo(u, MaxStored)
    \/ \E c \in Conns : \E token \in Users : Authenticate(c, token)
    \/ \E c \in Conns : ProcessSpeech(c)
    \/ \E t \in Turns : TranscribeReturns(t)
    \/ \E t \in Turns : ProfileReturns(t)

HistorySpec == Init /\ [][NextHistory]_vars

\* --------------------------------------------- the context store in time
\* The clock advances; it does not pass the instant the cleanup timer is due
\* without the timer firing, but whatever else happens at that instant may
\* run before the timer's callback or after it.
Tick ==
    /\ now < MaxTime
    /\ now < lastSweep + CleanupInterval
    /\ now' = now + 1
    /\ millis' = 0
    /\ UNCHANGED <<socket, activeConnections, processingQueue, conversationContexts,
                   sessions, turns, emitted, received, pendingStart, lastSweep,
                   feedbacks, ending>>
    /\ UNCHANGED stores

\* The setInterval callback of the SocketService constructor.
CleanupTimerFires ==
    /\ now = lastSweep + CleanupInterval
    /\ conversationContexts' = cleanupContexts(now, MaxAge)
    /\ lastSweep' = now
    /\ UNCHANGED <<socket, activeConnections, processingQueue, sessions, turns,
                   emitted, received, pendingStart, now, millis, feedbacks, ending>>
    /\ UNCHANGED stores

\* Turns whose stages succeed and whose analysis asks for no visual aid, on
\* connections without a session, while time passes and the cleanup timer
\* fires.
NextTimed ==
    \/ \E c \in Conns : \E token \in Users : Authenticate(c, token)
    \/ \E c \in Conns : ProcessSpeech(c)
    \/ \E t \in Turns : TranscribeReturns(t)
    \/ \E t \in Turns : ProfileReturns(t)
    \/ \E t \in Turns : AnalyzeReturns(t, PlainParsed)
    \/ Tick
    \/ CleanupTimerFires

TimedSpec == Init /\ [][NextTimed]_vars

\* --------------------------------------------- transcription confidence
\* The words of a verbose Whisper reply, as far as the confidence reads
\* them: len is word.word.length, dur is word.end - word.start in tenths of
\* a second, so that expectedLength / wordLength is len / dur.
WordLengths == {0, 1, 5}
WordDurations == {-1, 0, 2, 10}

WhisperWords == [len : WordLengths, dur : WordDurations]

WordLists == UNION {[1..n -> WhisperWords] : n \in 0..MaxWords}

\* the reducer of calculateTranscriptionConfidence
wordConfidence(word) == JsMinOne(JsDiv(word.len, word.dur))

RECURSIVE reduceConfidence(_, _)
\* words.reduce((sum, word) => sum + confidence, 0) over the first k words
reduceConfidence(words, k) ==
    IF k = 0 THEN Rat(0, 1)
    ELSE JsAdd(reduceConfidence(words, k - 1), wordConfidence(words[k]))

calculateTranscriptionConfidence(words) ==
    IF Len(words) = 0 THEN Rat(0, 1)
    ELSE LET sum == reduceConfidence(words, Len(words))
             avgConfidence == IF sum.nan THEN NaN
                              ELSE Rat(sum.num, sum.den * Len(words))
         IN  JsMaxZero(JsMinOne(avgConfidence))

\* transcribeAudio: the Whisper call resolves with the words ws and the
\* result is built.
WhisperReplies(ws) ==
    /\ transcription' = [words |-> ws,
                         confidence |-> calculateTranscriptionConfidence(ws)]
    /\ UNCHANGED <<socket, activeConnections, processingQueue, conversationContexts,
                   sessions, turns, emitted, received, pendingStart, timers,
                   feedbacks, ending, requests, progress, artworks>>
    /\ UNCHANGED <<formatted, limiter, files, transcribes, forgot>>

NextTranscription == \E ws \in WordLists : WhisperReplies(ws)

TranscriptionSpec == Init /\ [][NextTranscription]_vars

\* -------------------------------------------------- analysis formatting
\* processMultimodalInput hands the parsed completion to
\* formatAnalysisResponse.
AnalysisFormatted(parsed) ==
    /\ formatted = NoFormatted
    /\ formatted' = [parsed |-> parsed, result |-> formatAnalysisResponse(parsed)]
    /\ UNCHANGED <<socket, activeConnections, processingQueue, conversationContexts,
                   sessions, turns, emitted, received, pendingStart, timers,
                   feedbacks, ending, requests, progress, artworks>>
    /\ UNCHANGED <<transcription, limiter, files, transcribes, forgot>>

NextFormat == \E parsed \in ParsedFields : AnalysisFormatted(parsed)

FormatSpec == Init /\ [][NextFormat]_vars

\* ------------------------------------- start_session during end_session
\* The socket events of one session's life, with room in the table for a
\* second session: a start_session may be handled while the end_session
\* handler is suspended at `await this.endSession(...)`.
NextRace ==
    \/ \E c \in Conns : \E token \in Users : Authenticate(c, token)
    \/ \E c \in Conns : StartSessionUpTo(c, MaxRows)
    \/ \E c \in Conns : SessionCreated(c)
    \/ \E c \in Conns : EndSession(c)
    \/ \E c \in Conns : EndSessionFound(c)
    \/ \E c \in Conns : EndSessionUpdated(c)
    \/ \E c \in Conns : EndSessionProgressFound(c)
    \/ \E c \in Conns : EndSessionReturns(c)
    \/ \E c \in Conns : EndSessionFails(c)

RaceSpec == Init /\ [][NextRace]_vars

\* ------------------------------------------------------- userRateLimit
\* The limits and windows a limiter is created with; three time units are
\* the default 15 * 60 * 1000 ms.
Limits == {1, 2}
Windows == {TimeUnitMs, 3 * TimeUnitMs}

\* userRequests.filter(timestamp => timestamp > windowStart), and a variant
\* that keeps the timestamp on the boundary.
withinWindowInclusive(timestamps, windowStart) ==
    SelectSeq(timestamps, LAMBDA timestamp : timestamp >= windowStart)

withinWindow(timestamps, windowStart) ==
    SelectSeq(timestamps, LAMBDA timestamp : timestamp > windowStart)

\* userRateLimit(maxRequests, windowMs): the middleware and its empty Map.
UserRateLimit(maxRequests, windowMs) ==
    /\ ~limiter.created
    /\ limiter' = [NoLimiter EXCEPT !.created = TRUE, !.maxRequests = maxRequests,
                                    !.windowMs = windowMs]
    /\ UNCHANGED <<socket, activeConnections, processingQueue, conversationContexts,
                   sessions, turns, emitted, received, pendingStart, timers,
                   feedbacks, ending, requests, progress, artworks>>
    /\ UNCHANGED <<transcription, formatted, files, transcribes, forgot>>

\* One request through the middleware, of user u or with no req.user: it is
\* passed to next() or answered 429; log keeps what happened to each request.
RateLimited(u) ==
    /\ limiter.created
    /\ Len(limiter.log) < MaxEvents
    /\ IF u = NoUser
       THEN limiter' = [limiter EXCEPT
                !.log = Append(@, [userId |-> u, at |-> DateNow, status |-> 0])]
       ELSE LET windowStart == DateNow - limiter.windowMs
                userRequests == withinWindow(limiter.requests[u], windowStart)
            IN  IF Len(userRequests) >= limiter.maxRequests
                THEN limiter' = [limiter EXCEPT
                        !.log = Append(@, [userId |-> u, at |-> DateNow, status |-> 429])]
                ELSE limiter' = [limiter EXCEPT
                        !.requests[u] = Append(userRequests, DateNow),
                        !.log = Append(@, [userId |-> u, at |-> DateNow, status |-> 0])]
    /\ UNCHANGED <<socket, activeConnections, processingQueue, conversationContexts,
                   sessions, turns, emitted, received, pendingStart, timers,
                   feedbacks, ending, requests, progress, artworks>>
    /\ UNCHANGED <<transcription, formatted, files, transcribes, forgot>>

\* Date.now() of the HTTP process advances by one time unit.
ClockAdvances ==
    /\ now < MaxTime
    /\ now' = now + 1
    /\ UNCHANGED <<socket, activeConnections, processingQueue, conversationContexts,
                   sessions, turns, emitted, received, pendingStart, lastSweep, millis,
                   feedbacks, ending>>
    /\ UNCHANGED stores

NextRate ==
    \/ \E maxRequests \in Limits : \E windowMs \in Windows :
            UserRateLimit(maxRequests, windowMs)
    \/ \E u \in Users \cup {NoUser} : RateLimited(u)
    \/ ClockAdvances

RateSpec == Init /\ [][NextRate]_vars

\* ------------------------------------------------------ transcribeAudio
\* The audio buffers and formats transcribeAudio is called with.
AudioBuffers == {1, 2}
Formats == {"webm", "wav"}

\* path.join(config.uploadPath, `temp_${Date.now()}.${format}`)
tempFileName(at, format) == <<at, format>>

\* The upload directory: at most one file per path; writer is the call whose
\* writeFile produced the content.
fileAt(path) == {f \in files : f.path = path}

\* Everything a step of transcribeAudio leaves alone.
TranscribeFrame ==
    /\ UNCHANGED <<socket, activeConnections, processingQueue, conversationContexts,
                   sessions, turns, emitted, received, pendingStart, timers,
                   feedbacks, ending, requests, progress, artworks>>
    /\ UNCHANGED <<transcription, formatted, limiter, forgot>>

\* transcribeAudio(audioBuffer, format) up to `await fs.writeFile`; calls are
\* numbered in the order they are made.
TranscribeAudio(k, audioBuffer, format) ==
    /\ transcribes[k].pc = "idle"
    /\ \A j \in Calls : j < k => transcribes[j].pc # "idle"
    /\ transcribes' = [transcribes EXCEPT ![k] =
            [IdleTranscribe EXCEPT !.pc = "write", !.audioBuffer = audioBuffer,
                                   !.format = format,
                                   !.tempFilePath = tempFileName(DateNow, format)]]
    /\ UNCHANGED files
    /\ TranscribeFrame

\* fs.writeFile resolves: the path holds the call's buffer, whatever it held.
FileWritten(k) ==
    /\ transcribes[k].pc = "write"
    /\ files' = (files \ fileAt(transcribes[k].tempFilePath)) \cup
                    {[path |-> transcribes[k].tempFilePath,
                      content |-> transcribes[k].audioBuffer, writer |-> k]}
    /\ transcribes' = [transcribes EXCEPT ![k].pc = "read"]
    /\ TranscribeFrame

\* fs.readFile settles: its content is what the call sends to Whisper; with
\* no file at the path it rejects, and the catch rethrows.
FileRead(k) ==
    /\ transcribes[k].pc = "read"
    /\ LET found == fileAt(transcribes[k].tempFilePath)
       IN  IF found = {}
           THEN transcribes' = [transcribes EXCEPT ![k].pc = "done", ![k].outcome = "threw"]
           ELSE transcribes' = [transcribes EXCEPT ![k].pc = "whisper",
                                    ![k].sent = (CHOOSE f \in found : TRUE).content]
    /\ UNCHANGED files
    /\ TranscribeFrame

\* openai.audio.transcriptions.create resolves.
TranscriptionCreated(k) ==
    /\ transcribes[k].pc = "whisper"
    /\ transcribes' = [transcribes EXCEPT ![k].pc = "unlink"]
    /\ UNCHANGED files
    /\ TranscribeFrame

\* openai.audio.transcriptions.create rejects: the catch rethrows.
TranscriptionRejected(k) ==
    /\ transcribes[k].pc = "whisper"
    /\ transcribes' = [transcribes EXCEPT ![k].pc = "done", ![k].outcome = "threw"]
    /\ UNCHANGED files
    /\ TranscribeFrame

\* fs.unlink settles: the file at the path is removed and the call returns;
\* with no file at the path it rejects, and the catch rethrows.
FileUnlinked(k) ==
    /\ transcribes[k].pc = "unlink"
    /\ LET found == fileAt(transcribes[k].tempFilePath)
       IN  /\ files' = files \ found
           /\ transcribes' = [transcribes EXCEPT ![k].pc = "done",
                    ![k].outcome = IF found = {} THEN "threw" ELSE "returned"]
    /\ TranscribeFrame

NextTempFile ==
    \/ \E k \in Calls : \E audioBuffer \in AudioBuffers : \E format \in Formats :
            TranscribeAudio(k, audioBuffer, format)
    \/ \E k \in Calls : FileWritten(k)
    \/ \E k \in Calls : FileRead(k)
    \/ \E k \in Calls : TranscriptionCreated(k)
    \/ \E k \in Calls : TranscriptionRejected(k)
    \/ \E k \in Calls : FileUnlinked(k)
    \/ MillisPass

TempFileSpec == Init /\ [][NextTempFile]_vars

\* ------------------------------------------------ POST /forgot-password
\* The email of a request body, and the accounts of each world: the two
\* worlds differ in the account of a@x.org and in nothing else.
Emails == {Undefined, "", "a@x.org", "b@x.org"}
accounts(w) == IF w = "account" THEN {"a@x.org"} ELSE {}

\* prisma.user.findUnique({ where: { email } }) in world w.
findUniqueUser(w, email) == IF email \in accounts(w) THEN email ELSE "null"

\* A response that tells whether the account exists.
forgotResponseRevealing(user) ==
    IF user = "null"
    THEN [status |-> 404, message |-> "No account with that email."]
    ELSE [status |-> 200,
          message |-> "If an account with that email exists, a password reset link has been sent."]

\* res.json({ success: true, message: ... }) after the lookup returned user.
forgotResponse(user) ==
    [status |-> 200,
     message |-> "If an account with that email exists, a password reset link has been sent."]

ForgotFrame ==
    /\ UNCHANGED <<socket, activeConnections, processingQueue, conversationContexts,
                   sessions, turns, emitted, received, pendingStart, timers,
                   feedbacks, ending, requests, progress, artworks>>
    /\ UNCHANGED <<transcription, formatted, limiter, files, transcribes>>

\* The same request reaches the route in both worlds: 400 without an email,
\* else the handler waits for findUnique.
ForgotPassword(email) ==
    /\ \A w \in Worlds : forgot[w].pc \in {"idle", "done"} /\ forgot[w].handled < MaxRequests
    /\ forgot' = [w \in Worlds |->
            IF email \in Falsy
            THEN [forgot[w] EXCEPT !.pc = "done", !.email = email, !.lookupFailed = FALSE,
                                   !.status = 400, !.message = "Email is required",
                                   !.handled = @ + 1]
            ELSE [forgot[w] EXCEPT !.pc = "find", !.email = email, !.lookupFailed = FALSE,
                                   !.status = 0, !.message = "", !.handled = @ + 1]]
    /\ ForgotFrame

\* findUnique resolves: the response is sent, and only then the handler
\* looks at user and, with one, awaits logAuditEvent.
ForgotUserFound(w) ==
    /\ forgot[w].pc = "find"
    /\ LET user == findUniqueUser(w, forgot[w].email)
           response == forgotResponse(user)
       IN  forgot' = [forgot EXCEPT ![w].status = response.status,
                                    ![w].message = response.message,
                                    ![w].pc = IF user # "null" THEN "audit" ELSE "done"]
    /\ ForgotFrame

\* findUnique rejects: the catch answers 500.
ForgotLookupFails(w) ==
    /\ forgot[w].pc = "find"
    /\ forgot' = [forgot EXCEPT ![w].pc = "done", ![w].lookupFailed = TRUE,
                                ![w].status = 500, ![w].message = "Password reset failed"]
    /\ ForgotFrame

\* logAuditEvent settles: it catches a failed auditLog.create itself, so the
\* handler ends either way, with the response it sent before.
ForgotAudited(w, created) ==
    /\ forgot[w].pc = "audit"
    /\ forgot' = [forgot EXCEPT ![w].pc = "done",
                                ![w].audits = IF created THEN @ + 1 ELSE @]
    /\ ForgotFrame

NextForgot ==
    \/ \E email \in Emails : ForgotPassword(email)
    \/ \E w \in Worlds : ForgotUserFound(w)
    \/ \E w \in Worlds : ForgotLookupFails(w)
    \/ \E w \in Worlds : \E created \in BOOLEAN : ForgotAudited(w, created)

ForgotSpec == Init /\ [][NextForgot]_vars

\* ================================================================ claims
TurnsOf(u) == {t \in Turns : Running(t) /\ turns[t].userId = u}

Has(events, ev) == \E i \in 1..Len(events) : events[i].ev = ev

\* C1: for every user, at most one turn (from its acceptance in
\* processSpeechInput to its finally block) is in progress at any instant.
AtMostOneTurnPerUser ==
    \A u \in Users : Cardinality(TurnsOf(u)) <= 1

CompleteExactlyOnce ==
    \A t \in Turns :
        Count(EventNames(t), "processing_complete")
            = (IF turns[t].pc = "done" THEN 1 ELSE 0)

CompleteOnceWitness ==
    /\ \E t \in Turns : turns[t].pc = "done" /\ turns[t].failed = {"profile"}
    /\ \E t \in Turns : turns[t].pc = "done" /\ turns[t].failed = {}
    /\ \E c \in Conns : emitted[c]["processing_busy"] > 0

\* C4: a user's flag is set exactly while a turn of that user is running.
FlagIffTurnRunning ==
    \A u \in Users : (u \in processingQueue) <=> (TurnsOf(u) # {})

\* C5: while the connections stay open, a set flag is eventually released,
\* so a user is never locked out of later turns for ever, even when a remote
\* call never returns.
FlagEventuallyReleased ==
    \A u \in Users : (u \in processingQueue) ~> (u \notin processingQueue)

\* C6: a turn whose transcription, analysis and visual aid succeeded, the
\* analysis suggesting a visual aid with a concept, has emitted, up to and
\* including processing_complete, exactly processing_started,
\* transcription_ready, predictions_ready, visual_aid_ready, processing_complete
\* in this order, with audio_hint_ready, if any, right after visual_aid_ready.
UpToComplete(names) ==
    LET k == CHOOSE i \in 1..Len(names) :
                 names[i] = "processing_complete"
                 /\ \A j \in 1..(i - 1) : names[j] # "processing_complete"
    IN  SubSeq(names, 1, k)

VisualAidOrder ==
    <<"processing_started", "transcription_ready", "predictions_ready",
      "visual_aid_ready", "processing_complete">>

VisualAidOrderWithHint ==
    <<"processing_started", "transcription_ready", "predictions_ready",
      "visual_aid_ready", "audio_hint_ready", "processing_complete">>

VisualAidTurn(t) ==
    /\ turns[t].pc = "done"
    /\ turns[t].analysis # NoAnalysis
    /\ Truthy(turns[t].analysis.visualAidSuggested)
    /\ Truthy(turns[t].analysis.visualConcept)
    /\ turns[t].failed \cap {"transcribe", "profile", "analyze", "visual"} = {}

EventOrderWithVisualAid ==
    \A t \in Turns :
        VisualAidTurn(t) =>
            /\ Has(turns[t].events, "processing_complete")
            /\ UpToComplete(EventNames(t)) \in {VisualAidOrder, VisualAidOrderWithHint}

EventOrderWitness ==
    /\ \E t \in Turns : VisualAidTurn(t) /\ EventNames(t) = VisualAidOrder
    /\ \E t \in Turns : VisualAidTurn(t) /\ EventNames(t) = VisualAidOrderWithHint

\* C7: processing_complete is the last event of every ended turn, and a
\* processing_error of the turn comes before it.
CompleteIsLast ==
    \A t \in Turns :
        turns[t].pc = "done" =>
            EventNames(t)[Len(turns[t].events)] = "processing_complete"

\* C8: when the transcription of a turn fails, the turn ends: it has emitted
\* processing_error and none of transcription_ready, predictions_ready,
\* visual_aid_ready, audio_hint_ready, the analysis was never called, the
\* contexts and the sessions are unchanged and the user's flag is clear.
TranscribeFailureEndsTurn ==
    [][\A t \in Turns :
        (turns[t].pc = "transcribe" /\ turns'[t].pc # "transcribe"
                                    /\ "transcribe" \in turns'[t].failed)
        => /\ turns'[t].pc = "done"
           /\ Has(turns'[t].events, "processing_error")
           /\ \A ev \in {"transcription_ready", "predictions_ready",
                          "visual_aid_ready", "audio_hint_ready"} :
                  ~Has(turns'[t].events, ev)
           /\ turns'[t].calls = {"transcribe"}
           /\ UNCHANGED <<conversationContexts, sessions>>
           /\ turns[t].userId \notin processingQueue']_vars

TranscribeFailureWitness ==
    \E t \in Turns :
        /\ turns[t].pc = "done"
        /\ turns[t].failed = {"transcribe"}
        /\ socket[turns[t].conn].sessionId # NoSession

\* C9: a turn whose analysis failed has emitted processing_error and none of
\* predictions_ready, visual_aid_ready, audio_hint_ready, has appended no
\* entry to its user's context, and has not updated the session.
AnalyzeFailureAppendsNothing ==
    \A t \in Turns :
        (turns[t].pc = "done" /\ "analyze" \in turns[t].failed)
        => /\ Has(turns[t].events, "processing_error")
           /\ \A ev \in {"predictions_ready", "visual_aid_ready", "audio_hint_ready"} :
                  ~Has(turns[t].events, ev)
           /\ \A u \in Users :
                  \A i \in 1..Len(conversationContexts[u]) :
                      conversationContexts[u][i].transcription # t
           /\ "session" \notin turns[t].calls
           /\ \A s \in SessionIds : sessions[s].transcript # t

\* C10: when the visual aid of a turn fails, the step emits neither
\* visual_aid_ready nor processing_error, predictions_ready has been emitted,
\* the audio hint is emitted if the analysis asks for one, the session update
\* is started if the connection has a session, and the turn emits
\* processing_complete when it ends.
HintWanted(a) == a.audioHintSuggested = "true" /\ a.audioHintText \notin {"null", ""}

VisualAidFailureIsNotFatal ==
    [][\A t \in Turns :
        /\ (turns[t].pc = "visual" /\ turns'[t].pc # "visual"
                                   /\ "visual" \in turns'[t].failed)
           => /\ ~Has(turns'[t].events, "visual_aid_ready")
              /\ ~Has(turns'[t].events, "processing_error")
              /\ Has(turns[t].events, "predictions_ready")
              /\ Has(turns'[t].events, "audio_hint_ready") <=> HintWanted(turns[t].analysis)
              /\ IF socket[turns[t].conn].sessionId # NoSession
                 THEN turns'[t].pc = "session" /\ "session" \in turns'[t].calls
                 ELSE turns'[t].pc = "done"
        /\ ("visual" \in turns'[t].failed /\ turns'[t].pc = "done")
           => Has(turns'[t].events, "processing_complete")]_vars

VisualAidFailureWitness ==
    /\ \E t \in Turns :
          /\ turns[t].pc = "done"
          /\ turns[t].failed = {"visual"}
          /\ turns[t].sid # NoSession
          /\ Has(turns[t].events, "audio_hint_ready")
    /\ \E t \in Turns :
          /\ turns[t].pc = "done"
          /\ "visual" \in turns[t].failed
          /\ turns[t].sid = NoSession

\* C11: the context of a user never holds more than 10 entries: an append
\* to a context of fewer than 10 entries adds the entry at the end, and an
\* append to a context of 10 entries drops the oldest one, the other nine
\* staying in their order in front of the new entry.
AppendKeepsTenMostRecent ==
    [][\A u \in Users :
        conversationContexts'[u] # conversationContexts[u]
        => LET old == conversationContexts[u]
               new == conversationContexts'[u]
               kept == Len(new) - 1
           IN  /\ Len(new) = (IF Len(old) < 10 THEN Len(old) + 1 ELSE 10)
               /\ new[Len(new)].transcription = received'
               /\ \A i \in 1..kept : new[i] = old[Len(old) - kept + i]]_vars

\* Twelve analyses of one user: the entries of the first two are gone.
AppendDropsOldestWitness ==
    \E u \in Users :
        /\ \A v \in Users \ {u} : conversationContexts[v] = NoContext
        /\ received = 12
        /\ Len(conversationContexts[u]) = 10
        /\ \A i \in 1..10 : conversationContexts[u][i].transcription = i + 2

\* C12: when a turn reads its user's context to build the analysis request,
\* every entry it reads is less than 30 minutes old at that moment, the
\* cleanup running only on its 5-minute timer.
ReadEntriesAreFresh ==
    [][\A t \in Turns :
        (turns[t].pc = "profile" /\ turns'[t].pc = "analyze")
        => \A i \in 1..Len(turns'[t].history) :
               now - turns'[t].history[i].timestamp < MaxAge]_vars

\* C13: a run of the cleanup removes, for every user, exactly the entries
\* whose age is at least 30 minutes, keeps the younger ones in their order,
\* and leaves no key for a user without a remaining entry; run with a maximum
\* age of 0 it would leave every context empty.
Position(seq, x) == CHOOSE i \in 1..Len(seq) : seq[i] = x

SuccessfulAtMostTotal ==
    \A s \in SessionIds :
        sessions[s].successfulPredictions <= sessions[s].totalPredictions

Written(s) == {f \in Feedbacks : feedbacks[f].sid = s /\ feedbacks[f].written}

\* Two feedback events of one session read the same counters; both wrote.
SuccessfulAtMostTotalWitness ==
    \E s \in SessionIds :
        /\ Cardinality(Written(s)) = 2
        /\ \E f, g \in Written(s) : feedbacks[f].accepted /\ ~feedbacks[g].accepted
        /\ sessions[s].totalPredictions = 1
        /\ sessions[s].successfulPredictions = 1

\* C15: every feedback event processed for an existing session raises its
\* totalPredictions by exactly 1 and its successfulPredictions by 1 iff the
\* prediction was accepted: after N such events, however interleaved, the
\* counters have grown by N and by the number of accepted ones.
FeedbackCountsEveryEvent ==
    \A s \in SessionIds :
        /\ sessions[s].totalPredictions = Cardinality(Written(s))
        /\ sessions[s].successfulPredictions
             = Cardinality({f \in Written(s) : feedbacks[f].accepted})

\* C16: once a session is ended (endedAt set), no turn, running at that
\* moment or submitted later, changes its transcript, predictions or
\* confidence.
EndedSessionIsFrozen ==
    [][\A s \in SessionIds :
        sessions[s].endedAt # NoTime
        => /\ sessions'[s].transcript = sessions[s].transcript
           /\ sessions'[s].predictions = sessions[s].predictions
           /\ sessions'[s].confidence = sessions[s].confidence]_vars

\* C17: the disconnect of a connection releases its user's flag, removes
\* its user's registry entry and leaves every session as it is: the session
\* of the connection keeps endedAt unset and all its other fields.
DisconnectLeavesSessions ==
    [][\A c \in Conns :
        (socket[c].status = "open" /\ socket'[c].status = "closed")
        => /\ sessions' = sessions
           /\ socket[c].sessionId # NoSession
                  => sessions'[socket[c].sessionId].endedAt = NoTime
           /\ socket[c].userId # NoUser
                  => /\ socket[c].userId \notin processingQueue'
                     /\ activeConnections'[socket[c].userId] = NoConn]_vars

\* A connection with a session was closed while its turn was running.
DisconnectWitness ==
    \E c \in Conns : \E t \in Turns :
        /\ socket[c].status = "closed"
        /\ socket[c].sessionId # NoSession
        /\ sessions[socket[c].sessionId].exists
        /\ Running(t) /\ turns[t].conn = c
        /\ turns[t].userId \notin processingQueue
        /\ activeConnections[turns[t].userId] = NoConn

\* C19: a process_speech of an authenticated user whose own flag is clear is
\* never answered with processing_busy, whatever turns of other users are
\* running, and a step of a turn leaves the flag and the context of every
\* other user as they are and reads its history from its own user's context.
TurnsOfOthersDoNotInterfere ==
    [][/\ \A c \in Conns :
            (ProcessSpeech(c) /\ socket[c].authenticated
                              /\ socket[c].userId \notin processingQueue)
            => emitted'[c]["processing_busy"] = emitted[c]["processing_busy"]
       /\ \A t \in Turns :
            turns'[t] # turns[t]
            => /\ \A v \in Users \ {turns'[t].userId} :
                      /\ (v \in processingQueue') <=> (v \in processingQueue)
                      /\ conversationContexts'[v] = conversationContexts[v]
               /\ turns'[t].history # turns[t].history
                      => \A i \in 1..Len(turns'[t].history) :
                             \E j \in 1..Len(conversationContexts[turns[t].userId]) :
                                 turns'[t].history[i]
                                     = conversationContexts[turns[t].userId][j]]_vars

\* Turns of both users run at once, neither was rejected; one has stored its
\* entry, the other has built its request.
TwoUsersWitness ==
    \E t1, t2 \in Turns :
        /\ Running(t1) /\ Running(t2)
        /\ turns[t1].userId # turns[t2].userId
        /\ turns[t1].userId \in processingQueue
        /\ turns[t2].userId \in processingQueue
        /\ conversationContexts[turns[t1].userId] # NoContext
        /\ conversationContexts[turns[t2].userId] = NoContext
        /\ "analyze" \in turns[t2].calls
        /\ \A c \in Conns : emitted[c]["processing_busy"] = 0

\* C20: a process_speech on a connection that is not authenticated emits one
\* error and nothing else: no processing_started, processing_busy or
\* processing_complete, no flag is set, no turn starts and no call is made.
UnauthenticatedSpeechIsRejected ==
    [][\A c \in Conns :
        (ProcessSpeech(c) /\ ~socket[c].authenticated)
        => /\ emitted' = [emitted EXCEPT ![c]["error"] = @ + 1]
           /\ UNCHANGED <<turns, processingQueue, conversationContexts, sessions,
                          socket, activeConnections>>]_vars

\* An unauthenticated connection was answered with error while a turn of
\* an authenticated one was running.
UnauthenticatedWitness ==
    \E c \in Conns :
        /\ ~socket[c].authenticated
        /\ emitted[c]["error"] = 2
        /\ \E t \in Turns : Running(t)
        /\ Cardinality(processingQueue) = 1

\* C21: an authenticate whose token fails verification emits
\* authentication_error and changes nothing else: a connection that was not
\* authenticated stays so, without a user id, and the registry and the flags
\* are as before.
FailedAuthenticationChangesNothing ==
    [][\A c \in Conns :
        Authenticate(c, "invalid")
        => /\ emitted' = [emitted EXCEPT ![c]["authentication_error"] = @ + 1]
           /\ UNCHANGED <<socket, activeConnections, processingQueue, turns,
                          sessions, conversationContexts>>
           /\ ~socket[c].authenticated
                  => ~socket'[c].authenticated /\ socket'[c].userId = NoUser]_vars

\* A connection was refused while another user was registered and flagged.
FailedAuthenticationWitness ==
    \E c \in Conns :
        /\ emitted[c]["authentication_error"] > 0
        /\ ~socket[c].authenticated
        /\ socket[c].userId = NoUser
        /\ processingQueue # {}
        /\ \E u \in Users : activeConnections[u] # NoConn

DurationIsWholeSeconds ==
    \A s \in SessionIds :
        sessions[s].endedAt # NoTime =>
            LET elapsed == sessions[s].endedAt - sessions[s].startedAt
            IN  /\ sessions[s].duration >= 0
                /\ sessions[s].duration * 1000 <= elapsed
                /\ elapsed < (sessions[s].duration + 1) * 1000

\* A session ended over the socket and then over the route, 999 ms after it
\* started, with duration 0.
DurationWitness ==
    \E c \in Conns : \E q \in Requests :
        /\ emitted[c]["session_ended"] > 0
        /\ requests[q].route = "end" /\ requests[q].status = 200
        /\ sessions[requests[q].sid].endedAt - sessions[requests[q].sid].startedAt = 999
        /\ sessions[requests[q].sid].duration = 0

\* C24: an EndSession that completes has triggered the artwork generation if
\* and only if its session has three or more completed sentences: the route
\* that answers success has called generateMemoryGardenArt exactly then, and
\* when session_ended is emitted an artwork of the session has been asked for
\* exactly if it has three or more.
ArtworkIffThreeSentences ==
    [][/\ \A q \in Requests :
              (requests'[q].route = "end" /\ requests[q].status = 0
                  /\ requests'[q].status = 200) =>
                  (requests'[q].artwork <=>
                      sessions[requests'[q].sid].completedSentences >= 3)
       /\ \A c \in Conns :
              emitted'[c]["session_ended"] > emitted[c]["session_ended"] =>
                  (artworks'[ending[c].sid] > 0 <=>
                      sessions[ending[c].sid].completedSentences >= 3)]_vars

\* C25: once an EndSession has written the end of its session, whatever
\* becomes of the progress update and of the artwork generation, it finishes
\* with the session ended and the success outcome: session_ended on the
\* socket, status 200 on the route.
SideEffectsDoNotFailEndSession ==
    [][/\ \A c \in Conns :
              (ending[c].pc \in {"progress", "progressWrite"} /\ ending'[c].pc = "idle") =>
                  /\ sessions'[ending[c].sid].endedAt # NoTime
                  /\ sessions'[ending[c].sid].duration # NoTime
                  /\ emitted'[c]["session_ended"] = emitted[c]["session_ended"] + 1
       /\ \A q \in Requests :
              (requests[q].pc \in {"progress", "progressWrite", "artwork"}
                  /\ requests'[q].pc = "done") =>
                  /\ sessions'[requests[q].sid].endedAt # NoTime
                  /\ sessions'[requests[q].sid].duration # NoTime
                  /\ requests'[q].status = 200]_vars

\* C26: whenever no end of a session of a user is in flight, the user's
\* progress record of the day counts the ends of sessions that have completed:
\* totalSessions is the number of POST /session/:sessionId/end of the user
\* answered with success.
EndsOf(u) == {q \in Requests : requests[q].route = "end" /\ requests[q].userId = u}

ProgressCountsEveryEnd ==
    \A u \in Users :
        (\A q \in EndsOf(u) : requests[q].pc = "done") =>
            progress[u].totalSessions =
                Cardinality({q \in EndsOf(u) : requests[q].status = 200})

\* C27: when the session update at the end of a turn fails, the turn has
\* emitted transcription_ready and predictions_ready, emits
\* processing_complete, and its user's flag is released.
SessionFailureKeepsResults ==
    [][\A t \in Turns :
        (turns[t].pc = "session" /\ turns'[t].pc # "session"
                                 /\ "session" \in turns'[t].failed)
        => /\ Has(turns'[t].events, "transcription_ready")
           /\ Has(turns'[t].events, "predictions_ready")
           /\ Has(turns'[t].events, "processing_complete")
           /\ ~Has(turns[t].events, "processing_complete")
           /\ turns'[t].pc = "done"
           /\ turns[t].userId \notin processingQueue']_vars

SessionFailureWitness ==
    \E t \in Turns :
        /\ turns[t].pc = "done"
        /\ turns[t].failed = {"session"}
        /\ socket[turns[t].conn].status = "open"
        /\ turns[t].userId \notin processingQueue

\* C28: a turn whose analysis succeeded emits audio_hint_ready, once, if and
\* only if the completion has audioHint.suggested true and a non-empty hint
\* text; its priority is "immediate" when the completion's assistanceLevel
\* is "high" and "gentle" for every other level.
HintsOf(t) == {j \in 1..Len(turns[t].events) : turns[t].events[j].ev = "audio_hint_ready"}

AudioHintIffSuggested ==
    \A t \in Turns : \A u \in Users : \A i \in 1..Len(conversationContexts[u]) :
        (turns[t].pc = "done" /\ conversationContexts[u][i].transcription = t)
        => LET completion == conversationContexts[u][i].analysis
           IN  /\ (HintsOf(t) # {})
                      <=> /\ completion.audioSuggested = "true"
                          /\ completion.audioText \notin {Undefined, "null", ""}
               /\ Cardinality(HintsOf(t)) <= 1
               /\ \A j \in HintsOf(t) :
                      turns[t].events[j].arg
                          = (IF completion.assistanceLevel = "high"
                             THEN "immediate" ELSE "gentle")

\* One ended turn with an immediate hint, one whose completion suggested a
\* hint with an empty text and that emitted none.
AudioHintWitness ==
    \E t1, t2 \in Turns :
        /\ turns[t1].pc = "done" /\ turns[t2].pc = "done"
        /\ \E j \in HintsOf(t1) : turns[t1].events[j].arg = "immediate"
        /\ HintsOf(t2) = {}
        /\ turns[t2].analysis.audioHintSuggested = "true"

\* C29: the history a turn puts into its analysis request is exactly the
\* last min(5, n) of the n entries its user's context holds at that moment,
\* oldest first, and holds no entry of another user's context.
RequestHoldsLastFive ==
    [][\A t \in Turns :
        (turns[t].pc = "profile" /\ turns'[t].pc = "analyze")
        => LET u == turns[t].userId
               context == conversationContexts[u]
               n == Len(context)
               k == IF n < 5 THEN n ELSE 5
               history == turns'[t].history
           IN  /\ Len(history) = k
               /\ \A i \in 1..k : history[i] = context[n - k + i]
               /\ \A v \in Users \ {u} :
                      \A i \in 1..k : \A j \in 1..Len(conversationContexts[v]) :
                          history[i] # conversationContexts[v][j]]_vars

\* A turn has built its request from a context of more than five entries
\* while the other user's context had entries too.
LastFiveWitness ==
    \E t \in Turns :
        LET context == conversationContexts[turns[t].userId]
        IN  /\ turns[t].pc = "analyze"
            /\ Len(turns[t].history) = 5
            /\ Len(context) = 6
            /\ \A i \in 1..5 : turns[t].history[i] = context[i + 1]
            /\ \E v \in Users \ {turns[t].userId} : conversationContexts[v] # NoContext

\* C30: the confidence of a transcription is a number in [0,1]: 0 for no
\* words, otherwise the average over the words of 0.1 * characters /
\* duration with each word's value clamped to [0,1], also for words of zero
\* or negative duration.
Clamped(word) ==
    IF word.dur = 0 THEN Rat(1, 1)
    ELSE IF word.dur < 0 THEN Rat(0, 1)
    ELSE IF word.len > word.dur THEN Rat(1, 1)
    ELSE Rat(word.len, word.dur)

RECURSIVE ClampedSum(_, _)
ClampedSum(words, k) ==
    IF k = 0 THEN Rat(0, 1)
    ELSE LET rest == ClampedSum(words, k - 1)
             c == Clamped(words[k])
         IN  Rat(rest.num * c.den + c.num * rest.den, rest.den * c.den)

ConfidenceIsClampedAverage ==
    LET words == transcription.words
        confidence == transcription.confidence
        n == Len(words)
        expected == ClampedSum(words, n)
    IN  /\ ~confidence.nan /\ ~confidence.inf
        /\ 0 <= confidence.num /\ confidence.num <= confidence.den
        /\ n = 0 => confidence.num = 0
        /\ (n > 0 /\ \A i \in 1..n : ~(words[i].len = 0 /\ words[i].dur = 0))
              => confidence.num * expected.den * n = expected.num * confidence.den

\* C31, as stated: in the result of formatAnalysisResponse a missing field
\* has its default and a present field the value it had in the parsed object.
FieldDefaults ==
    { <<"wordPredictions", "predictions", "[]">>,
      <<"confidence", "confidence", "0">>,
      <<"intendedMeaning", "intendedMeaning", "">>,
      <<"assistanceLevel", "assistanceLevel", "low">>,
      <<"visualSuggested", "visualAidSuggested", "false">>,
      <<"visualConcept", "visualConcept", "null">>,
      <<"audioSuggested", "audioHintSuggested", "false">>,
      <<"audioText", "audioHintText", "null">>,
      <<"emotionalContext", "emotionalContext", "neutral">>,
      <<"recommendations", "recommendations", "">> }

PresentFieldsPassThrough ==
    formatted # NoFormatted =>
        \A f \in FieldDefaults :
            formatted.result[f[2]] = IF formatted.parsed[f[1]] = Undefined
                                     THEN f[3]
                                     ELSE formatted.parsed[f[1]]

\* C31, amended: a field that is missing or present with a falsy value (null,
\* 0, false, '') has its default in the result, a field present with any
\* other value the value it had.
TruthyFieldsPassThrough ==
    formatted # NoFormatted =>
        \A f \in FieldDefaults :
            formatted.result[f[2]] = IF formatted.parsed[f[1]] \in Falsy
                                     THEN f[3]
                                     ELSE formatted.parsed[f[1]]

\* An object with predictions and a level, without a confidence, whose audio
\* hint has the empty text: the text comes out as null.
FormatWitness ==
    /\ formatted.parsed.wordPredictions = "[walk]"
    /\ formatted.parsed.assistanceLevel = "high"
    /\ formatted.parsed.confidence = Undefined
    /\ formatted.parsed.audioText = ""
    /\ formatted.result.predictions = "[walk]"
    /\ formatted.result.assistanceLevel = "high"
    /\ formatted.result.confidence = "0"
    /\ formatted.result.audioHintText = "null"

\* C32: whenever a connection authenticated as a user is open, the registry
\* maps the user to one of the user's open connections: to the one that
\* authenticates in the step, else to the one it mapped to before if that is
\* still open.  (Of two connections, that is the most recently authenticated
\* of the open ones.)
LastRegisteredWins ==
    [][\A u \in Users :
          LET open == {c \in Conns : /\ socket'[c].status = "open"
                                     /\ socket'[c].authenticated
                                     /\ socket'[c].userId = u}
              authenticating == {c \in open : emitted'[c]["authenticated"]
                                                 > emitted[c]["authenticated"]}
          IN  open # {} =>
                  /\ activeConnections'[u] \in open
                  /\ \A c \in authenticating : activeConnections'[u] = c
                  /\ (authenticating = {} /\ activeConnections[u] \in open) =>
                         activeConnections'[u] = activeConnections[u]]_vars

\* C33: every registry entry refers to a connection that is open,
\* authenticated and has the entry's key as its userId.
RegistryEntriesAreLive ==
    \A u \in Users :
        activeConnections[u] # NoConn =>
            /\ socket[activeConnections[u]].status = "open"
            /\ socket[activeConnections[u]].authenticated
            /\ socket[activeConnections[u]].userId = u

\* C34: the prediction counters of a session change only in a step that
\* writes the feedback of the session's owner.
CountersChangeOnlyByOwner ==
    [][\A s \in SessionIds :
          (\/ sessions'[s].successfulPredictions # sessions[s].successfulPredictions
           \/ sessions'[s].totalPredictions # sessions[s].totalPredictions) =>
              \E f \in Feedbacks :
                  /\ ~feedbacks[f].written /\ feedbacks'[f].written
                  /\ feedbacks[f].sid = s
                  /\ feedbacks[f].userId = sessions[s].userId]_vars

\* C35: on every step that emits session_ended, the sessionId of the payload
\* is the id of the session endSession was called on, and a session the
\* connection started while that call was in progress is still the
\* connection's active session after the step.
ReportedIsEnded ==
    [][\A c \in Conns :
          emitted'[c]["session_ended"] # emitted[c]["session_ended"]
              => /\ ending'[c].reported = ending[c].sid
                 /\ socket[c].sessionId # ending[c].sid
                        => socket'[c].sessionId = socket[c].sessionId]_vars

\* C36: ending a session that is already ended changes nothing: no step
\* changes the endedAt or the duration of a row that has an endedAt, and a
\* user's totalSessions of the day never exceeds the number of that user's
\* ended sessions, so each session is counted at most once.
EndedOf(u) == {s \in Rows : sessions[s].userId = u /\ sessions[s].endedAt # NoTime}

EndSessionIsIdempotent ==
    [][/\ \A s \in Rows :
            sessions[s].endedAt # NoTime
                => /\ sessions'[s].endedAt = sessions[s].endedAt
                   /\ sessions'[s].duration = sessions[s].duration
       /\ \A u \in Users :
            progress'[u].totalSessions <= Cardinality(EndedOf(u))']_vars

\* C37: with a limiter userRateLimit(maxRequests, windowMs), for every user
\* and every time t at most maxRequests of the user's requests with a
\* timestamp in (t - windowMs, t] were passed to next(); a request is
\* answered 429 only if maxRequests of the same user's requests were passed
\* within the windowMs before it; the Map holds only timestamps of requests
\* that were passed; a request without a user is always passed.
PassedOf(u, from, to) ==
    {i \in DOMAIN limiter.log :
        /\ limiter.log[i].userId = u /\ limiter.log[i].status = 0
        /\ limiter.log[i].at > from /\ limiter.log[i].at <= to}

RateLimitHolds ==
    limiter.created =>
        /\ \A u \in Users : \A k \in 0..now :
              Cardinality(PassedOf(u, k * TimeUnitMs - limiter.windowMs, k * TimeUnitMs))
                  <= limiter.maxRequests
        /\ \A i \in DOMAIN limiter.log :
              LET request == limiter.log[i]
              IN  /\ request.userId = NoUser => request.status = 0
                  /\ request.status = 429 =>
                        Cardinality({j \in PassedOf(request.userId,
                                                    request.at - limiter.windowMs,
                                                    request.at) : j < i})
                            >= limiter.maxRequests
        /\ \A u \in Users :
              /\ \A n \in DOMAIN limiter.requests[u] :
                    \E i \in DOMAIN limiter.log :
                        /\ limiter.log[i].userId = u /\ limiter.log[i].status = 0
                        /\ limiter.log[i].at = limiter.requests[u][n]
              /\ Len(limiter.requests[u])
                    <= Cardinality(PassedOf(u, NoTime, DateNow))

\* A user is passed, answered 429 in the same window although another user
\* and a request without a user were passed in it, and passed again exactly
\* windowMs after the first request.
RateLimitWitness ==
    /\ Len(limiter.log) = 4
    /\ limiter.log[1].userId = "u1" /\ limiter.log[1].status = 0
    /\ limiter.log[2].userId \in {"u2", NoUser} /\ limiter.log[2].status = 0
    /\ limiter.log[3].userId = "u1" /\ limiter.log[3].status = 429
    /\ limiter.log[4].userId = "u1" /\ limiter.log[4].status = 0
    /\ limiter.log[4].at = limiter.log[1].at + limiter.windowMs

\* C38: two transcribeAudio calls that are in progress at the same time have
\* different temporary file paths, every call sends to the transcription
\* service the audio it was given, and no unlink removes a file another
\* call wrote.
InProgress(k) == transcribes[k].pc \notin {"idle", "done"}

TempFilesAreSeparate ==
    [][/\ \A k \in Calls : \A j \in Calls \ {k} :
            (InProgress(k) /\ InProgress(j))'
                => transcribes'[k].tempFilePath # transcribes'[j].tempFilePath
       /\ \A k \in Calls :
            transcribes'[k].sent # NoAudio
                => transcribes'[k].sent = transcribes'[k].audioBuffer
       /\ \A k \in Calls :
            transcribes[k].pc = "unlink" /\ transcribes'[k].pc = "done"
                => \A f \in files \ files' : f.writer = k]_vars

\* C39: when a transcribeAudio call has returned or thrown, the upload
\* directory holds no file that the call wrote.
TempFilesAreDeleted ==
    \A k \in Calls :
        transcribes[k].pc = "done" => \A f \in files : f.writer # k

\* C40: a POST /forgot-password request that carries an email gets the same
\* success response whether or not an account with the email exists: when
\* both worlds have answered a request with an email and the lookup failed
\* in neither, both answered 200 with the same message.
ForgotResponseHidesAccount ==
    (/\ \A w \in Worlds : forgot[w].status # 0 /\ ~forgot[w].lookupFailed
     /\ forgot["account"].email \notin Falsy)
        => /\ forgot["account"].status = 200
           /\ forgot["none"].status = forgot["account"].status
           /\ forgot["none"].message = forgot["account"].message

\* Both worlds answered a request for the email whose account exists in one
\* of them only, and only that world wrote an audit row.
ForgotWitness ==
    /\ \A w \in Worlds : forgot[w].pc = "done" /\ forgot[w].status = 200
                            /\ forgot[w].email = "a@x.org"
    /\ forgot["account"].audits = 1
    /\ forgot["none"].audits = 0

====
